---------------------------- MODULE Spec2Model ----------------------------
(***************************************************************************)
(* A state-machine model of the multi-state life table (MSLT) simulation   *)
(* of COVID_PMSLT: the components of src/src/mslt/components (population,  *)
(* disease, magic-wand and stage components) driven by the simulation      *)
(* framework's events time_step__prepare and time_step.                    *)
(*                                                                         *)
(* Numbers.  The program computes in IEEE doubles; the model computes in   *)
(* decimal fixed point with SCALE units per 1.0 (rates, probabilities,     *)
(* head counts, S/C occupancy), with results truncated towards zero.       *)
(* Ages are counted in quarter-days, so that step_size/365.25 years is the *)
(* integer 4*step_size and the comparison age > max_age is exact.          *)
(*                                                                         *)
(* Framework.  The components run inside the vivarium framework, which is  *)
(* not part of the repository.  What the model takes from it is stated at  *)
(* the definitions concerned: listeners of one event run in the order of   *)
(* their registration; a value pipeline evaluates its source and then its  *)
(* modifiers in the order of their registration; a rate producer rescales  *)
(* the annual rate to the step (step_size/365); a population view whose    *)
(* columns do not include 'tracked' returns tracked cohorts only.          *)
(***************************************************************************)
EXTENDS Integers, Sequences, FiniteSets, TLC

----------------------------------------------------------------------------
(* Fixed-point arithmetic                                                  *)

SCALE == 100 * 100

Abs(x) == IF x < 0 THEN -x ELSE x

Sgn(x) == IF x < 0 THEN -1 ELSE 1

Max2(a, b) == IF a >= b THEN a ELSE b

Min2(a, b) == IF a <= b THEN a ELSE b

\* |a|*|b|/SCALE without leaving 32 bits: the larger factor is split.
MulAbs(a, b) ==
    LET big == Max2(a, b)
        small == Min2(a, b)
    IN  (big \div SCALE) * small + ((big % SCALE) * small) \div SCALE

\* a*b in fixed point
Mul(a, b) == Sgn(a) * Sgn(b) * MulAbs(Abs(a), Abs(b))

RECURSIVE FracDigits(_, _, _, _)
\* n further decimal digits of rem/b
FracDigits(rem, b, n, acc) ==
    IF n = 0 THEN acc
    ELSE FracDigits((rem * 10) % b, b, n - 1, acc * 10 + (rem * 10) \div b)

\* |a|/|b|*SCALE by long division (b > 0)
DivAbs(a, b) == (a \div b) * SCALE + FracDigits(a % b, b, 4, 0)

\* a/b in fixed point (b # 0)
Div(a, b) == Sgn(a) * Sgn(b) * DivAbs(Abs(a), Abs(b))

RECURSIVE ExpSeries(_, _, _, _)
\* sum of the Taylor terms x^k/k! from term k on (x >= 0)
ExpSeries(x, k, term, acc) ==
    IF term = 0 \/ k > 16 THEN acc
    ELSE ExpSeries(x, k + 1, MulAbs(term, x) \div k, acc + term)

\* np.exp(x)
Exp(x) ==
    IF x >= 0 THEN ExpSeries(x, 1, SCALE, 0)
    ELSE (SCALE * SCALE) \div ExpSeries(-x, 1, SCALE, 0)

RECURSIVE AtanhSeries(_, _, _, _)
\* z + z^3/3 + z^5/5 + ...  (|z| < 1)
AtanhSeries(z2, k, pw, acc) ==
    IF pw = 0 \/ k > 41 THEN acc
    ELSE AtanhSeries(z2, k + 2, Mul(pw, z2), acc + pw \div k)

\* np.log(y) for y > 0: 2*atanh((y-1)/(y+1))
Ln(y) ==
    LET z == Div(y - SCALE, y + SCALE)
        a == AtanhSeries(Mul(z, z), 1, Abs(z), 0)
    IN  Sgn(z) * 2 * a

RECURSIVE ISqrtBetween(_, _, _)
\* the largest m in lo..hi with m*m <= n
ISqrtBetween(n, lo, hi) ==
    IF lo >= hi THEN lo
    ELSE LET mid == (lo + hi + 1) \div 2
         IN  IF mid * mid <= n THEN ISqrtBetween(n, mid, hi)
             ELSE ISqrtBetween(n, lo, mid - 1)

\* np.sqrt(x) for x >= 0
Sqrt(x) == ISqrtBetween(x * SCALE, 0, 46340)

----------------------------------------------------------------------------
(* Configuration and input data                                            *)

\* population.max_age, in years
MaxAge == 110

\* time.start: 15 January, as a zero-based day of the start year
StartDayOfYear == 14

\* the number of days of the start year (2021)
DaysInStartYear == 365

\* the number of time steps a run of the model takes
MaxSteps == 3

\* the number of components a model specification lists besides
\* BasePopulation, Mortality and Disability
MaxComponents == 2

\* quarter-days in a year of 365.25 days
QuarterDaysPerYear == 1461

Cohorts == {1, 2}

\* time.step_size, in days
StepSizes == {180, 365}

\* the remission tables a run may load: zero everywhere, or non-zero for
\* the cohorts younger than 60
RemissionTables == {"zero", "young"}

\* the ages (quarter-days) population.structure may give the cohorts under
\* step size s, from: a quarter-day short of 60 years, 70 years, one step
\* short of max_age, and a quarter-day past max_age
PopulationStructures(s) ==
    LET young == 60 * QuarterDaysPerYear - 1
        old == 70 * QuarterDaysPerYear
        last == MaxAge * QuarterDaysPerYear - 4 * s
        past == MaxAge * QuarterDaysPerYear + 1
    IN  { <<young, old>>, <<old, old>>, <<old, last>>, <<young, past>> }

AcuteNames == {"covid", "anxiety"}

NoAffects == [mortality |-> <<>>, morbidity |-> <<>>]

\* configuration lockdown.affects: disease -> scale, in the order of the keys
LockdownAffects ==
    [mortality |-> << [d |-> "anxiety", scale |-> 18800],
                      [d |-> "covid", scale |-> 5000] >>,
     morbidity |-> << [d |-> "anxiety", scale |-> 11600],
                      [d |-> "covid", scale |-> 7000] >>]

Component(cls, name, flag, scale, affects) ==
    [cls |-> cls, name |-> name, flag |-> flag, scale |-> scale,
     affects |-> affects]

\* the components a model specification may list after the population
\* components; flag is no_bau of an AcuteDisease and
\* simplified_no_remission_equations of a Disease, scale is the configured
\* mortality_scale / yld_scale / 1 - rate_reduce
Catalog ==
    { Component("AcuteDisease", "covid", TRUE, 0, NoAffects),
      Component("AcuteDisease", "anxiety", FALSE, 0, NoAffects),
      Component("Disease", "chd", TRUE, 0, NoAffects),
      Component("Disease", "chd", FALSE, 0, NoAffects),
      Component("MortalityShift", "mortality_shift", FALSE, 0, NoAffects),
      Component("YLDShift", "yld_shift", FALSE, 0, NoAffects),
      Component("MortalityEffects", "a", FALSE, 0, NoAffects),
      Component("MortalityEffects", "b", FALSE, 0, NoAffects),
      Component("IncidenceShift", "chd", FALSE, 5000, NoAffects),
      Component("ModifyAcuteDiseaseYLD", "anxiety", FALSE, 5000, NoAffects),
      Component("ModifyAcuteDiseaseMortality", "anxiety", FALSE, 5000,
                NoAffects),
      Component("LockdownAcuteDisease", "stage3and4", FALSE, 0,
                LockdownAffects) }

\* Lookup tables, by age in whole years (a) or by year since the start year (y)
MortalityData(a) == IF a < 60 THEN 0 ELSE IF a < 100 THEN 100 ELSE 3000

YldData(a) == IF a < 100 THEN 1000 ELSE 2000

AcuteMortalityData(name, a) ==
    IF name = "covid" THEN (IF a < 60 THEN 50 ELSE 200) ELSE 20

AcuteMorbidityData(name, a) ==
    IF name = "covid" THEN (IF a < 60 THEN 100 ELSE 300) ELSE 400

IncidenceData(a) == IF a < 60 THEN 500 ELSE 1000

RemissionData(table, a) == IF table = "young" /\ a < 65 THEN 200 ELSE 0

ExcessMortalityData(a) == 1000

MorbidityData(a) == 2000

PrevalenceData(a) == IF a < 60 THEN 1000 ELSE 2000

MortEffectsData(name, a) == IF name = "a" THEN 8000 ELSE 12000

StageData(y) == IF y = 0 THEN SCALE ELSE IF y = 1 THEN 0 ELSE 5000

\* population.structure: the head count of every cohort
PopulationData == 1000 * SCALE

----------------------------------------------------------------------------
(* State                                                                   *)

VARIABLES
    pc,          \* the handler the framework runs next
    step,        \* the number of completed time steps (the clock)
    data,        \* the configuration and input data of the run
    components,  \* the components set up so far, in order
    mods,        \* pipeline name -> its modifiers, in registration order
    pop,         \* the cohort table of BasePopulation, Mortality, Disability
    dis,         \* the S/C columns of the chronic disease, per cohort
    acute,       \* the bookkeeping columns of the acute diseases
    evals,       \* pipeline name -> cohort -> evaluations in this step
    log,         \* the handlers run in this step, in order
    solves,      \* cohort -> disease updates in this step
    before       \* the cohort table when this step began

vars == <<pc, step, data, components, mods, pop, dis, acute, evals, log,
          solves, before>>

\* the names of the rate pipelines of acute disease d and of the chronic
\* disease x
BauExcessMortality(d) == d \o ".excess_mortality"

IntExcessMortality(d) == d \o "_intervention.excess_mortality"

BauYldRate(d) == d \o ".yld_rate"

IntYldRate(d) == d \o "_intervention.yld_rate"

BauIncidence(x) == x \o ".incidence"

IntIncidence(x) == x \o "_intervention.incidence"

BauRemission(x) == x \o ".remission"

\* the rates the docstring of Disease lists as open to interventions; a
\* pipeline of such a name exists once a modifier is registered on it
DocumentedPipelines(x) ==
    {x \o "_intervention.incidence", x \o "_intervention.remission",
     x \o "_intervention.mortality", x \o "_intervention.morbidity"}

Pipelines ==
    {"mortality_rate", "bau_mortality_rate", "yld_rate", "bau_yld_rate"}
    \cup {BauExcessMortality(d) : d \in AcuteNames \cup {"chd"}}
    \cup {IntExcessMortality(d) : d \in AcuteNames}
    \cup {BauYldRate(d) : d \in AcuteNames \cup {"chd"}}
    \cup {IntYldRate(d) : d \in AcuteNames}
    \cup {BauIncidence("chd"), IntIncidence("chd"), BauRemission("chd")}
    \cup DocumentedPipelines("chd")

----------------------------------------------------------------------------
(* Lookups, the clock and the value pipelines                              *)

\* the 'age' parameter of a lookup on cohort c: its age in whole years
AgeYears(c) == pop[c].age \div QuarterDaysPerYear

\* the 'year' parameter of a lookup: clock().year, counted from the start
\* year (every year is taken to have the length of the start year)
ClockYear == (StartDayOfYear + step * data.step_size) \div DaysInStartYear

\* BasePopulation.years_per_timestep, in quarter-days of age
AgeIncrement == 4 * data.step_size

\* YearsPerTimestep with the year of 365.25 days that BasePopulation uses
\* for the ageing (the fault of one years_per_timestep for all components)
YearsPerTimestepOfAgeing ==
    (4 * data.step_size * SCALE) \div QuarterDaysPerYear

\* years_per_timestep of Mortality, MortalityEffects and AcuteDisease
YearsPerTimestep == (data.step_size * SCALE) \div 365

\* the rescaling of an annual rate to the time step, done by a rate producer
Rescale(v) == Sgn(v) * ((Abs(v) * data.step_size) \div 365)

\* Tracked with the untracked cohorts of the table included (the fault of a
\* view that does not filter on 'tracked')
TrackedOrNot == {c \in Cohorts : pop[c].tracked \/ pop[c].age > 0}

\* the cohorts a population view without the 'tracked' column returns
Tracked == {c \in Cohorts : pop[c].tracked}

\* the scale configured for disease d in one lockdown.affects dictionary
ScaleOf(dict, d) ==
    LET k == CHOOSE j \in 1..Len(dict) : dict[j].d = d IN dict[k].scale

Modifier(fn, self, d) == [fn |-> fn, self |-> self, d |-> d]

\* Register with the modifier put first (the fault of a pipeline that calls
\* the last registered modifier first)
RegisterFirst(ms, name, m) == [ms EXCEPT ![name] = <<m>> \o @]

\* builder.value.register_value_modifier(name, m)
Register(ms, name, m) == [ms EXCEPT ![name] = Append(@, m)]

\* MortalityShift.mortality_adjustment and YLDShift.disability_adjustment
ShiftAdjustment(self, c, rates) == Mul(rates, SCALE \div 2)

\* MortalityEffects.mortality_rate_adjustment
MortalityRateAdjustment(self, c, mort_rate) ==
    Mul(mort_rate, MortEffectsData(self.name, AgeYears(c)))

\* IncidenceShift.incidence_adjustment, ModifyAcuteDiseaseYLD.
\* disability_adjustment and ModifyAcuteDiseaseMortality.mortality_adjustment
ScaleAdjustment(self, c, rates) == Mul(rates, self.scale)

\* StageFactor without the share of the year outside the stage (the fault
\* of scale * stage_table(index) alone)
StageFactorOfStageOnly(scale) == Mul(scale, StageData(ClockYear))

\* scale * stage_table(index) + (1 - stage_table(index))
StageFactor(scale) ==
    Mul(scale, StageData(ClockYear)) + (SCALE - StageData(ClockYear))

\* the lambdas of LockdownAcuteDisease.setup; d is the value of the loop
\* variable 'disease' when the lambda is called
LockdownMortalityAdjustment(self, d, c, rates) ==
    Mul(rates, StageFactor(ScaleOf(self.affects.mortality, d)))

LockdownMorbidityAdjustment(self, d, c, rates) ==
    Mul(rates, StageFactor(ScaleOf(self.affects.morbidity, d)))

\* the call of a registered modifier m that only computes a value from the
\* value v: every modifier but those of AcuteDisease and Disease
ApplyRateModifier(m, c, v) ==
    CASE m.fn \in {"MortalityShift.mortality_adjustment",
                   "YLDShift.disability_adjustment"} ->
            ShiftAdjustment(m.self, c, v)
      [] m.fn = "MortalityEffects.mortality_rate_adjustment" ->
            MortalityRateAdjustment(m.self, c, v)
      [] m.fn \in {"IncidenceShift.incidence_adjustment",
                   "ModifyAcuteDiseaseYLD.disability_adjustment",
                   "ModifyAcuteDiseaseMortality.mortality_adjustment"} ->
            ScaleAdjustment(m.self, c, v)
      [] m.fn = "LockdownAcuteDisease.mortality_lambda" ->
            LockdownMortalityAdjustment(m.self, m.d, c, v)
      [] m.fn = "LockdownAcuteDisease.morbidity_lambda" ->
            LockdownMorbidityAdjustment(m.self, m.d, c, v)

RECURSIVE FoldRateModifiers(_, _, _)
\* the modifiers ms applied to the value v, first to last
FoldRateModifiers(ms, c, v) ==
    IF ms = <<>> THEN v
    ELSE FoldRateModifiers(Tail(ms), c, ApplyRateModifier(Head(ms), c, v))

\* one evaluation of a rate pipeline of a disease (its source gives src);
\* the modifiers the components register on these pipelines only compute
\* a value
RateCall(name, src, c, st) ==
    [st EXCEPT !.v = Rescale(FoldRateModifiers(mods[name], c, src)),
               !.n[name] = @ + 1]

\* AcuteDeaths with the deaths of the step added to the column (the fault
\* of an accumulator)
AcuteDeathsAccumulated(self, c, ac, int_rate, bau_rate) ==
    LET d == self.name
        deaths == Mul(Mul(pop[c].population, int_rate), YearsPerTimestep)
        deaths_bau ==
            Mul(Mul(pop[c].bau_population, bau_rate), YearsPerTimestep)
    IN  IF self.flag THEN [ac EXCEPT ![d].deaths = @ + deaths]
        ELSE [ac EXCEPT ![d].deaths = @ + deaths,
                        ![d].deaths_bau = @ + deaths_bau]

\* the bookkeeping columns AcuteDisease.mortality_adjustment writes: the
\* rates int_rate and (unless no_bau) bau_rate of its second evaluations
AcuteDeaths(self, c, ac, int_rate, bau_rate) ==
    LET d == self.name
        deaths == Mul(Mul(pop[c].population, int_rate), YearsPerTimestep)
        deaths_bau ==
            Mul(Mul(pop[c].bau_population, bau_rate), YearsPerTimestep)
    IN  IF self.flag THEN [ac EXCEPT ![d].deaths = deaths]
        ELSE [ac EXCEPT ![d].deaths = deaths, ![d].deaths_bau = deaths_bau]

\* the bookkeeping columns AcuteDisease.disability_adjustment writes
AcuteHALY(self, c, ac, int_rate, bau_rate) ==
    LET d == self.name
        haly == - Mul(pop[c].person_years, int_rate)
        haly_bau == - Mul(pop[c].bau_person_years, bau_rate)
    IN  IF self.flag THEN [ac EXCEPT ![d].HALY = haly]
        ELSE [ac EXCEPT ![d].HALY = haly, ![d].HALY_bau = haly_bau]

\* AcuteCalls with the BAU pipeline called whatever no_bau says (the fault
\* of rates extracted before the test of no_bau)
AcuteCallsWithBau(self, int, bau, src, c, st) ==
    LET e1 == RateCall(int, src, c, st)
        e2 == RateCall(bau, src, c, e1)
        e3 == RateCall(int, src, c, e2)
        e4 == RateCall(bau, src, c, e3)
    IN  [delta |-> IF self.flag THEN e1.v ELSE e1.v - e2.v,
         int_rate |-> e3.v, bau_rate |-> e4.v, st |-> e4]

\* AcuteCalls with the BAU rate never subtracted (the fault of treating
\* every acute disease as no_bau)
AcuteCallsDeltaIntOnly(self, int, bau, src, c, st) ==
    LET e1 == RateCall(int, src, c, st)
        e2 == RateCall(IF self.flag THEN int ELSE bau, src, c, e1)
        e3 == IF self.flag THEN e2 ELSE RateCall(int, src, c, e2)
        e4 == IF self.flag THEN e2 ELSE RateCall(bau, src, c, e3)
    IN  [delta |-> e1.v, int_rate |-> e3.v, bau_rate |-> e4.v, st |-> e4]

\* the pipeline calls of an AcuteDisease adjustment, in the order of the
\* code, on the intervention pipeline int and the BAU pipeline bau: under
\* no_bau int twice (delta, bookkeeping), else int, bau (delta) and int, bau
\* (bookkeeping).  Gives the values of the calls and the state after them.
AcuteCalls(self, int, bau, src, c, st) ==
    LET e1 == RateCall(int, src, c, st)
        e2 == RateCall(IF self.flag THEN int ELSE bau, src, c, e1)
        e3 == IF self.flag THEN e2 ELSE RateCall(int, src, c, e2)
        e4 == IF self.flag THEN e2 ELSE RateCall(bau, src, c, e3)
    IN  [delta |-> IF self.flag THEN e1.v ELSE e1.v - e2.v,
         int_rate |-> e3.v, bau_rate |-> e4.v, st |-> e4]

\* AcuteDisease.mortality_adjustment on cohort c; st.v is mortality_rate
AcuteMortalityAdjustment(self, c, st) ==
    LET d == self.name
        r == AcuteCalls(self, IntExcessMortality(d), BauExcessMortality(d),
                        AcuteMortalityData(d, AgeYears(c)), c, st)
    IN  [v |-> st.v + r.delta,
         ac |-> AcuteDeaths(self, c, r.st.ac, r.int_rate, r.bau_rate),
         n |-> r.st.n]

\* AcuteDisease.disability_adjustment on cohort c; st.v is yld_rate
AcuteDisabilityAdjustment(self, c, st) ==
    LET d == self.name
        r == AcuteCalls(self, IntYldRate(d), BauYldRate(d),
                        AcuteMorbidityData(d, AgeYears(c)), c, st)
    IN  [v |-> st.v + r.delta,
         ac |-> AcuteHALY(self, c, r.st.ac, r.int_rate, r.bau_rate),
         n |-> r.st.n]

\* DiseaseMortalityAdjustment with the two risks exchanged in the ratio
\* (the fault of a delta of the wrong sign)
DiseaseMortalityAdjustmentInverted(self, c, st) ==
    LET x == dis[c]
        D == 1000 * SCALE - x.S - x.C
        D_prev == 1000 * SCALE - x.S_previous - x.C_previous
        D_int == 1000 * SCALE - x.S_intervention - x.C_intervention
        D_int_prev == 1000 * SCALE - x.S_intervention_previous
                                   - x.C_intervention_previous
        mortality_risk == Div(D - D_prev, x.S_previous + x.C_previous)
        mortality_risk_int ==
            Div(D_int - D_int_prev,
                x.S_intervention_previous + x.C_intervention_previous)
        delta == Ln(Div(SCALE - mortality_risk_int, SCALE - mortality_risk))
    IN  [st EXCEPT !.v = @ + delta]

\* Disease.mortality_adjustment on cohort c; st.v is mortality_rate
DiseaseMortalityAdjustment(self, c, st) ==
    LET x == dis[c]
        D == 1000 * SCALE - x.S - x.C
        D_prev == 1000 * SCALE - x.S_previous - x.C_previous
        D_int == 1000 * SCALE - x.S_intervention - x.C_intervention
        D_int_prev == 1000 * SCALE - x.S_intervention_previous
                                   - x.C_intervention_previous
        mortality_risk == Div(D - D_prev, x.S_previous + x.C_previous)
        mortality_risk_int ==
            Div(D_int - D_int_prev,
                x.S_intervention_previous + x.C_intervention_previous)
        delta == Ln(Div(SCALE - mortality_risk, SCALE - mortality_risk_int))
    IN  [st EXCEPT !.v = @ + delta]

\* Disease.disability_adjustment on cohort c; st.v is yld_rate
DiseaseDisabilityAdjustment(self, c, st) ==
    LET x == dis[c]
        prevalence_rate ==
            Div(x.C + x.C_previous, x.S + x.C + x.S_previous + x.C_previous)
        prevalence_rate_int ==
            Div(x.C_intervention + x.C_intervention_previous,
                x.S_intervention + x.C_intervention
                + x.S_intervention_previous + x.C_intervention_previous)
        delta == prevalence_rate_int - prevalence_rate
        e == RateCall(BauYldRate(self.name), MorbidityData(AgeYears(c)),
                          c, st)
    IN  [e EXCEPT !.v = st.v + Mul(e.v, delta)]

\* the call of one registered modifier m on cohort c; st.v is the value
ApplyModifier(m, c, st) ==
    CASE m.fn = "AcuteDisease.mortality_adjustment" ->
            AcuteMortalityAdjustment(m.self, c, st)
      [] m.fn = "AcuteDisease.disability_adjustment" ->
            AcuteDisabilityAdjustment(m.self, c, st)
      [] m.fn = "Disease.mortality_adjustment" ->
            DiseaseMortalityAdjustment(m.self, c, st)
      [] m.fn = "Disease.disability_adjustment" ->
            DiseaseDisabilityAdjustment(m.self, c, st)
      [] OTHER -> [st EXCEPT !.v = ApplyRateModifier(m, c, @)]

RECURSIVE FoldModifiers(_, _, _)
\* the modifiers ms applied to st.v, first to last
FoldModifiers(ms, c, st) ==
    IF ms = <<>> THEN st
    ELSE FoldModifiers(Tail(ms), c, ApplyModifier(Head(ms), c, st))

\* one evaluation of the pipeline called name, whose source gives src
Pipeline(name, src, c, st) ==
    FoldModifiers(mods[name], c, [st EXCEPT !.v = src, !.n[name] = @ + 1])

\* the post-processing of a rate producer's result r
Rescaled(r) == [r EXCEPT !.v = Rescale(@)]

\* one evaluation of a pipeline made by register_rate_producer
RateProducer(name, src, c, st) == Rescaled(Pipeline(name, src, c, st))

\* the results of a handler's two pipeline calls: the intervention rate of
\* the first call e1, and the BAU rate and the state after the second, e2
TwoRates(e1, e2) == [rate |-> e1.v, bau_rate |-> e2.v, ac |-> e2.ac, n |-> e2.n]

\* a handler's call of the pipeline called name and then of its BAU
\* counterpart on cohort c, both with the source value src
RateAndBauRate(name, bau_name, src, c, e1) ==
    TwoRates(e1, RateProducer(bau_name, src, c, e1))

\* the evaluation state a handler starts from on cohort c
Eval0(c) ==
    [v |-> 0,
     ac |-> [d \in AcuteNames |-> acute[d][c]],
     n |-> [p \in Pipelines |-> evals[p][c]]]

----------------------------------------------------------------------------
(* Setup of the components                                                 *)

RECURSIVE LockdownLoop(_, _, _)
\* the loop 'for disease in self.diseaseMortRates' from its k-th key on; the
\* lambdas read the loop variable when called, after the loop has ended
LockdownLoop(ms, self, k) ==
    LET keys == self.affects.mortality
        last == keys[Len(keys)].d
    IN  IF k > Len(keys) THEN ms
        ELSE LockdownLoop(
                 Register(
                     Register(ms, IntExcessMortality(keys[k].d),
                              Modifier("LockdownAcuteDisease.mortality_lambda",
                                       self, last)),
                     IntYldRate(keys[k].d),
                     Modifier("LockdownAcuteDisease.morbidity_lambda",
                              self, last)),
                 self, k + 1)

\* AcuteDisease.setup: its two modifiers
AcuteDiseaseSetup(self, ms) ==
    Register(Register(ms, "mortality_rate",
                      Modifier("AcuteDisease.mortality_adjustment", self, "")),
             "yld_rate",
             Modifier("AcuteDisease.disability_adjustment", self, ""))

\* Disease.setup: its two modifiers
DiseaseSetup(self, ms) ==
    Register(Register(ms, "mortality_rate",
                      Modifier("Disease.mortality_adjustment", self, "")),
             "yld_rate",
             Modifier("Disease.disability_adjustment", self, ""))

\* MortalityShift.setup
MortalityShiftSetup(self, ms) ==
    Register(ms, "mortality_rate",
             Modifier("MortalityShift.mortality_adjustment", self, ""))

\* YLDShift.setup
YLDShiftSetup(self, ms) ==
    Register(ms, "yld_rate",
             Modifier("YLDShift.disability_adjustment", self, ""))

\* MortalityEffects.register_mortality_modifier
MortalityEffectsSetup(self, ms) ==
    Register(ms, "mortality_rate",
             Modifier("MortalityEffects.mortality_rate_adjustment", self, ""))

\* IncidenceShift.setup
IncidenceShiftSetup(self, ms) ==
    Register(ms, BauIncidence(self.name),
             Modifier("IncidenceShift.incidence_adjustment", self, ""))

\* ModifyAcuteDiseaseYLD.setup
ModifyAcuteDiseaseYLDSetup(self, ms) ==
    Register(ms, IntYldRate(self.name),
             Modifier("ModifyAcuteDiseaseYLD.disability_adjustment", self, ""))

\* ModifyAcuteDiseaseMortality.setup
ModifyAcuteDiseaseMortalitySetup(self, ms) ==
    Register(ms, IntExcessMortality(self.name),
             Modifier("ModifyAcuteDiseaseMortality.mortality_adjustment",
                      self, ""))

\* the setup method of component self
ComponentSetup(self, ms) ==
    CASE self.cls = "AcuteDisease" -> AcuteDiseaseSetup(self, ms)
      [] self.cls = "Disease" -> DiseaseSetup(self, ms)
      [] self.cls = "MortalityShift" -> MortalityShiftSetup(self, ms)
      [] self.cls = "YLDShift" -> YLDShiftSetup(self, ms)
      [] self.cls = "MortalityEffects" -> MortalityEffectsSetup(self, ms)
      [] self.cls = "IncidenceShift" -> IncidenceShiftSetup(self, ms)
      [] self.cls = "ModifyAcuteDiseaseYLD" ->
            ModifyAcuteDiseaseYLDSetup(self, ms)
      [] self.cls = "ModifyAcuteDiseaseMortality" ->
            ModifyAcuteDiseaseMortalitySetup(self, ms)
      [] self.cls = "LockdownAcuteDisease" -> LockdownLoop(ms, self, 1)

\* the components of class cls set up so far
Of(cls) == {k \in 1..Len(components) : components[k].cls = cls}

HasDisease == Of("Disease") # {}

\* the chronic Disease component of the run
TheDisease == components[CHOOSE k \in Of("Disease") : TRUE]

ZeroCohort ==
    [age |-> 0, tracked |-> FALSE, population |-> 0, bau_population |-> 0,
     acmr |-> 0, bau_acmr |-> 0, pr_death |-> 0, bau_pr_death |-> 0,
     deaths |-> 0, bau_deaths |-> 0, yld_rate |-> 0, bau_yld_rate |-> 0,
     person_years |-> 0, bau_person_years |-> 0, HALY |-> 0, bau_HALY |-> 0]

ZeroDisease ==
    [S |-> 0, C |-> 0, S_previous |-> 0, C_previous |-> 0,
     S_intervention |-> 0, C_intervention |-> 0,
     S_intervention_previous |-> 0, C_intervention_previous |-> 0]

ZeroAcute == [deaths |-> 0, deaths_bau |-> 0, HALY |-> 0, HALY_bau |-> 0]

ZeroEvals == [p \in Pipelines |-> [c \in Cohorts |-> 0]]

Init ==
    /\ pc = "setup"
    /\ step = 0
    /\ \E s \in StepSizes, t \in RemissionTables :
         \E ages \in PopulationStructures(s) :
            data = [step_size |-> s, remission |-> t, age |-> ages]
    /\ components = <<>>
    /\ mods = [p \in Pipelines |-> <<>>]
    /\ pop = [c \in Cohorts |-> ZeroCohort]
    /\ dis = [c \in Cohorts |-> ZeroDisease]
    /\ acute = [d \in AcuteNames |-> [c \in Cohorts |-> ZeroAcute]]
    /\ evals = ZeroEvals
    /\ log = <<>>
    /\ solves = [c \in Cohorts |-> 0]
    /\ before = [c \in Cohorts |-> ZeroCohort]

\* 'if self.scale < 0: raise ValueError' of ModifyAcuteDiseaseYLD.setup and
\* ModifyAcuteDiseaseMortality.setup
RaisesValueError(self) ==
    /\ self.cls \in {"ModifyAcuteDiseaseYLD", "ModifyAcuteDiseaseMortality"}
    /\ self.scale < 0

\* the framework sets up the next component of the model specification; an
\* exception of its setup method ends the run
Setup(self) ==
    /\ pc = "setup"
    /\ Len(components) < MaxComponents
    /\ \A k \in 1..Len(components) :
          ~(components[k].cls = self.cls /\ components[k].name = self.name)
    /\ IF RaisesValueError(self)
       THEN /\ pc' = "ValueError"
            /\ UNCHANGED <<components, mods>>
       ELSE /\ pc' = pc
            /\ components' = Append(components, self)
            /\ mods' = ComponentSetup(self, mods)
    /\ UNCHANGED <<step, data, pop, dis, acute, evals, log, solves, before>>

\* load_population_data and BasePopulation.on_initialize_simulants
InitialCohort(c) ==
    [ZeroCohort EXCEPT !.age = data.age[c], !.tracked = TRUE,
                       !.population = PopulationData,
                       !.bau_population = PopulationData]

\* InitialDisease with the columns of the previous step left at their
\* placeholder (the fault of initialising the current columns only)
InitialDiseaseCurrentOnly(c) ==
    LET C == Mul(1000 * SCALE,
                 PrevalenceData(data.age[c] \div QuarterDaysPerYear))
        S == 1000 * SCALE - C
    IN  [S |-> S, C |-> C, S_previous |-> 0, C_previous |-> 0,
         S_intervention |-> S, C_intervention |-> C,
         S_intervention_previous |-> 0, C_intervention_previous |-> 0]

\* Disease.on_initialize_simulants
InitialDisease(c) ==
    LET C == Mul(1000 * SCALE,
                 PrevalenceData(data.age[c] \div QuarterDaysPerYear))
        S == 1000 * SCALE - C
    IN  [S |-> S, C |-> C, S_previous |-> S, C_previous |-> C,
         S_intervention |-> S, C_intervention |-> C,
         S_intervention_previous |-> S, C_intervention_previous |-> C]

\* the framework creates the cohorts: every on_initialize_simulants runs
InitializeSimulants ==
    /\ pc = "setup"
    /\ pc' = "BasePopulation.on_time_step_prepare"
    /\ pop' = [c \in Cohorts |-> InitialCohort(c)]
    /\ before' = pop'
    /\ dis' = IF HasDisease THEN [c \in Cohorts |-> InitialDisease(c)] ELSE dis
    /\ acute' = [d \in AcuteNames |-> [c \in Cohorts |-> ZeroAcute]]
    /\ UNCHANGED <<step, data, components, mods, evals, log, solves>>

----------------------------------------------------------------------------
(* The handlers of time_step__prepare                                      *)

\* AfterFirstStep without the exception for the first step (the fault of
\* '>=' for '>')
AfterFirstStepToo == step * data.step_size >= 0

\* 'if self.clock().date() > self.start_date'
AfterFirstStep == step * data.step_size > 0

\* AgeAndRetire with the cohort retired on reaching max_age (the fault of
\* '>=' for '>')
AgeAndRetireAtMaxAge(row) ==
    LET age == IF AfterFirstStep THEN row.age + AgeIncrement ELSE row.age
    IN  [row EXCEPT !.age = age,
                    !.tracked = ~(age >= MaxAge * QuarterDaysPerYear)]

\* BasePopulation.on_time_step_prepare on one tracked cohort row
AgeAndRetire(row) ==
    LET age == IF AfterFirstStep THEN row.age + AgeIncrement ELSE row.age
    IN  [row EXCEPT !.age = age,
                    !.tracked = ~(age > MaxAge * QuarterDaysPerYear)]

\* NextHandler with the Disease listener called after those of time_step
\* (the fault of a disease update that runs last in the step)
NextHandlerDiseaseLast(h) ==
    CASE h = "BasePopulation.on_time_step_prepare" -> "Mortality.on_time_step"
      [] h = "Mortality.on_time_step" -> "Disability.on_time_step"
      [] h = "Disability.on_time_step" ->
            IF HasDisease THEN "Disease.on_time_step_prepare"
            ELSE "step_forward"
      [] h = "Disease.on_time_step_prepare" -> "step_forward"

\* the listener the framework calls after the handler h: the listeners of
\* time_step__prepare and then those of time_step, each in the order of the
\* components' setup
NextHandler(h) ==
    CASE h = "BasePopulation.on_time_step_prepare" ->
            IF HasDisease THEN "Disease.on_time_step_prepare"
            ELSE "Mortality.on_time_step"
      [] h = "Disease.on_time_step_prepare" -> "Mortality.on_time_step"
      [] h = "Mortality.on_time_step" -> "Disability.on_time_step"
      [] h = "Disability.on_time_step" -> "step_forward"

BasePopulationPrepare ==
    /\ pc = "BasePopulation.on_time_step_prepare"
    /\ pc' = NextHandler(pc)
    /\ pop' = [c \in Cohorts |->
                 IF pop[c].tracked THEN AgeAndRetire(pop[c]) ELSE pop[c]]
    /\ log' = Append(log, pc)
    /\ UNCHANGED <<step, data, components, mods, dis, acute, evals, solves,
                   before>>

\* SkipDiseaseUpdate for the first step only (the fault of a disease that
\* is re-solved in the later steps of the start year)
SkipDiseaseUpdateFirstStep == step = 0

\* 'if self.clock().year == self.start_year: return'
SkipDiseaseUpdate == ClockYear = 0

\* the four rates Disease.on_time_step_prepare extracts for cohort c
DiseaseRates(self, c) ==
    LET a == AgeYears(c)
        e1 == RateCall(BauIncidence(self.name), IncidenceData(a), c,
                           Eval0(c))
        e2 == RateCall(IntIncidence(self.name), IncidenceData(a), c, e1)
        e3 == RateCall(BauRemission(self.name),
                           RemissionData(data.remission, a), c, e2)
        e4 == RateCall(BauExcessMortality(self.name),
                           ExcessMortalityData(a), c, e3)
    IN  [i_bau |-> e1.v, i_int |-> e2.v, r |-> e3.v, f |-> e4.v, n |-> e4.n]

\* the simplified equations for one track
SimplifiedUpdate(S, C, i, f) ==
    LET new_S == Mul(S, Exp(-i))
    IN  [S |-> new_S, C |-> Mul(C, Exp(-f)) + S - new_S]

\* GeneralUpdate with the remission left out of the first term of the
\* numerator of C (the fault of f for f + r)
GeneralUpdateNoRemissionInC(S, C, i, r, f) ==
    LET f_plus_r == f + r
        l == i + f_plus_r
        q == Sqrt(Mul(i, i) + Mul(r, r) + Mul(f, f) + 2 * Mul(i, r)
                  + 2 * Mul(f, r) - 2 * Mul(i, f))
        w == Exp(-((l + q) \div 2))
        v == Exp(-((l - q) \div 2))
        nz == q # 0
        denom == 2 * q
        num_S == 2 * Mul(v - w, Mul(S, f_plus_r) + Mul(C, r))
                 + Mul(S, Mul(v, q - l) + Mul(w, q + l))
        num_C == - (Mul(v - w, 2 * (Mul(f, S + C) - Mul(l, S))
                                - Mul(l, C))
                    - Mul(Mul(v + w, q), C))
    IN  [S |-> IF nz THEN Div(num_S, denom) ELSE S,
         C |-> IF nz THEN Div(num_C, denom) ELSE C]

\* the full equations for one track
GeneralUpdate(S, C, i, r, f) ==
    LET f_plus_r == f + r
        l == i + f_plus_r
        q == Sqrt(Mul(i, i) + Mul(r, r) + Mul(f, f) + 2 * Mul(i, r)
                  + 2 * Mul(f, r) - 2 * Mul(i, f))
        w == Exp(-((l + q) \div 2))
        v == Exp(-((l - q) \div 2))
        nz == q # 0
        denom == 2 * q
        num_S == 2 * Mul(v - w, Mul(S, f_plus_r) + Mul(C, r))
                 + Mul(S, Mul(v, q - l) + Mul(w, q + l))
        num_C == - (Mul(v - w, 2 * (Mul(f_plus_r, S + C) - Mul(l, S))
                                - Mul(l, C))
                    - Mul(Mul(v + w, q), C))
    IN  [S |-> IF nz THEN Div(num_S, denom) ELSE S,
         C |-> IF nz THEN Div(num_C, denom) ELSE C]

\* UpdatedDisease with the 'previous' columns left as they were (the fault
\* of an update that writes the current columns only)
UpdatedDiseasePreviousKept(x, rt, simple, zero_r) ==
    LET r == IF zero_r THEN 0 ELSE rt.r
        bau == IF simple THEN SimplifiedUpdate(x.S, x.C, rt.i_bau, rt.f)
               ELSE GeneralUpdate(x.S, x.C, rt.i_bau, r, rt.f)
        int == IF simple
               THEN SimplifiedUpdate(x.S_intervention, x.C_intervention,
                                     rt.i_int, rt.f)
               ELSE GeneralUpdate(x.S_intervention, x.C_intervention,
                                  rt.i_int, r, rt.f)
    IN  [x EXCEPT !.S = bau.S, !.C = bau.C,
                  !.S_intervention = int.S, !.C_intervention = int.C]

\* the columns Disease.on_time_step_prepare writes for one cohort with the
\* rates rt; simple: the branch of the simplified equations is taken;
\* zero_r: np.all(r == 0), so that r is replaced by 0
UpdatedDisease(x, rt, simple, zero_r) ==
    LET r == IF zero_r THEN 0 ELSE rt.r
        bau == IF simple THEN SimplifiedUpdate(x.S, x.C, rt.i_bau, rt.f)
               ELSE GeneralUpdate(x.S, x.C, rt.i_bau, r, rt.f)
        int == IF simple
               THEN SimplifiedUpdate(x.S_intervention, x.C_intervention,
                                     rt.i_int, rt.f)
               ELSE GeneralUpdate(x.S_intervention, x.C_intervention,
                                  rt.i_int, r, rt.f)
    IN  [S |-> bau.S, C |-> bau.C,
         S_previous |-> x.S, C_previous |-> x.C,
         S_intervention |-> int.S, C_intervention |-> int.C,
         S_intervention_previous |-> x.S_intervention,
         C_intervention_previous |-> x.C_intervention]

\* Solved with the equations chosen for each cohort by its own remission
\* (the fault of 'r == 0' tested per cohort, not over the batch)
SolvedPerCohort(self, rates, zero_r) ==
    /\ dis' = [c \in Cohorts |->
                 IF c \in Tracked
                 THEN UpdatedDisease(dis[c], rates[c],
                                     rates[c].r = 0 /\ self.flag,
                                     rates[c].r = 0)
                 ELSE dis[c]]
    /\ evals' = [p \in Pipelines |-> [c \in Cohorts |->
                   IF c \in Tracked THEN rates[c].n[p] ELSE evals[p][c]]]
    /\ solves' = [c \in Cohorts |->
                    IF c \in Tracked THEN solves[c] + 1 ELSE solves[c]]

\* the state after Disease.on_time_step_prepare has extracted the rates
\* rates of the tracked cohorts and updated their columns
Solved(self, rates, zero_r) ==
    /\ dis' = [c \in Cohorts |->
                 IF c \in Tracked
                 THEN UpdatedDisease(dis[c], rates[c], zero_r /\ self.flag,
                                     zero_r)
                 ELSE dis[c]]
    /\ evals' = [p \in Pipelines |-> [c \in Cohorts |->
                   IF c \in Tracked THEN rates[c].n[p] ELSE evals[p][c]]]
    /\ solves' = [c \in Cohorts |->
                    IF c \in Tracked THEN solves[c] + 1 ELSE solves[c]]

\* Disease.on_time_step_prepare
DiseasePrepare ==
    /\ pc = "Disease.on_time_step_prepare"
    /\ pc' = NextHandler(pc)
    /\ log' = Append(log, pc)
    /\ IF SkipDiseaseUpdate \/ Tracked = {}
       THEN UNCHANGED <<dis, evals, solves>>
       ELSE \E rates \in {[c \in Tracked |-> DiseaseRates(TheDisease, c)]} :
               Solved(TheDisease, rates, \A c \in Tracked : rates[c].r = 0)
    /\ UNCHANGED <<step, data, components, mods, pop, acute, before>>

----------------------------------------------------------------------------
(* The handlers of time_step                                               *)

\* MortalityRates with the BAU rate read from the mortality_rate pipeline
\* (the fault of a BAU rate that goes through the modifiers)
MortalityRatesBauModified(c) ==
    RateAndBauRate("mortality_rate", "mortality_rate",
                   MortalityData(AgeYears(c)), c,
                   RateProducer("mortality_rate", MortalityData(AgeYears(c)),
                                c, Eval0(c)))

\* the two pipeline calls of Mortality.on_time_step on cohort c:
\* mortality_rate first, bau_mortality_rate second
MortalityRates(c) ==
    RateAndBauRate("mortality_rate", "bau_mortality_rate",
                   MortalityData(AgeYears(c)), c,
                   RateProducer("mortality_rate", MortalityData(AgeYears(c)),
                                c, Eval0(c)))

\* MortalityRow with the deaths taken from the population already reduced
\* (the fault of updating the population before computing the deaths)
MortalityRowDeathsOfSurvivors(row, rt) ==
    LET probability_of_death == SCALE - Exp(-rt.rate)
        population == Mul(row.population, SCALE - probability_of_death)
        deaths == Mul(population, probability_of_death)
        bau_probability_of_death == SCALE - Exp(-rt.bau_rate)
        bau_population ==
            Mul(row.bau_population, SCALE - bau_probability_of_death)
        bau_deaths == Mul(bau_population, bau_probability_of_death)
    IN  [row EXCEPT
            !.acmr = rt.rate,
            !.population = population,
            !.bau_acmr = rt.bau_rate,
            !.bau_population = bau_population,
            !.pr_death = probability_of_death,
            !.bau_pr_death = bau_probability_of_death,
            !.deaths = deaths,
            !.bau_deaths = bau_deaths,
            !.person_years =
                Mul(population + Mul(SCALE \div 2, deaths), YearsPerTimestep),
            !.bau_person_years =
                Mul(bau_population + Mul(SCALE \div 2, bau_deaths),
                    YearsPerTimestep)]

\* the row Mortality.on_time_step writes for a cohort with the rates rt
MortalityRow(row, rt) ==
    LET probability_of_death == SCALE - Exp(-rt.rate)
        deaths == Mul(row.population, probability_of_death)
        population == Mul(row.population, SCALE - probability_of_death)
        bau_probability_of_death == SCALE - Exp(-rt.bau_rate)
        bau_deaths == Mul(row.bau_population, bau_probability_of_death)
        bau_population ==
            Mul(row.bau_population, SCALE - bau_probability_of_death)
    IN  [row EXCEPT
            !.acmr = rt.rate,
            !.population = population,
            !.bau_acmr = rt.bau_rate,
            !.bau_population = bau_population,
            !.pr_death = probability_of_death,
            !.bau_pr_death = bau_probability_of_death,
            !.deaths = deaths,
            !.bau_deaths = bau_deaths,
            !.person_years =
                Mul(population + Mul(SCALE \div 2, deaths), YearsPerTimestep),
            !.bau_person_years =
                Mul(bau_population + Mul(SCALE \div 2, bau_deaths),
                    YearsPerTimestep)]

\* the state after a handler of time_step has evaluated its pipelines with
\* the results rates and computed the rows rows of the tracked cohorts
Written(rates, rows) ==
    /\ pop' = [c \in Cohorts |-> IF c \in Tracked THEN rows[c] ELSE pop[c]]
    /\ acute' = [d \in AcuteNames |-> [c \in Cohorts |->
                   IF c \in Tracked THEN rates[c].ac[d] ELSE acute[d][c]]]
    /\ evals' = [p \in Pipelines |-> [c \in Cohorts |->
                   IF c \in Tracked THEN rates[c].n[p] ELSE evals[p][c]]]

\* the rows of Mortality.on_time_step under the pipeline results rates
MortalityRows(rates) == [c \in Tracked |-> MortalityRow(pop[c], rates[c])]

\* Mortality.on_time_step
MortalityStep ==
    /\ pc = "Mortality.on_time_step"
    /\ pc' = NextHandler(pc)
    /\ IF Tracked = {}
       THEN /\ log' = Append(log, pc)
            /\ UNCHANGED <<pop, acute, evals>>
       ELSE /\ \E rates \in {[c \in Tracked |-> MortalityRates(c)]} :
                 Written(rates, MortalityRows(rates))
            /\ log' = log \o <<pc, "mortality_rate", "bau_mortality_rate",
                               "update population deaths person_years">>
    /\ UNCHANGED <<step, data, components, mods, dis, solves, before>>

\* the two pipeline calls of Disability.on_time_step on cohort c:
\* yld_rate first, bau_yld_rate second
DisabilityRates(c) ==
    RateAndBauRate("yld_rate", "bau_yld_rate", YldData(AgeYears(c)), c,
                   RateProducer("yld_rate", YldData(AgeYears(c)), c, Eval0(c)))

\* the row Disability.on_time_step writes for a cohort with the rates rt
DisabilityRow(row, rt) ==
    [row EXCEPT
        !.yld_rate = rt.rate,
        !.bau_yld_rate = rt.bau_rate,
        !.HALY = Mul(row.person_years, SCALE - rt.rate),
        !.bau_HALY = Mul(row.bau_person_years, SCALE - rt.bau_rate)]

\* the rows of Disability.on_time_step under the pipeline results rates
DisabilityRows(rates) == [c \in Tracked |-> DisabilityRow(pop[c], rates[c])]

\* Disability.on_time_step
DisabilityStep ==
    /\ pc = "Disability.on_time_step"
    /\ pc' = NextHandler(pc)
    /\ IF Tracked = {}
       THEN /\ log' = Append(log, pc)
            /\ UNCHANGED <<pop, acute, evals>>
       ELSE /\ \E rates \in {[c \in Tracked |-> DisabilityRates(c)]} :
                 Written(rates, DisabilityRows(rates))
            /\ log' = log \o <<pc, "yld_rate", "bau_yld_rate", "update HALY">>
    /\ UNCHANGED <<step, data, components, mods, dis, solves, before>>

\* the framework's clock.step_forward() at the end of a step; the next step
\* begins unless the run has taken its MaxSteps steps
StepForward ==
    /\ pc = "step_forward"
    /\ step' = step + 1
    /\ pc' = IF step + 1 < MaxSteps
             THEN "BasePopulation.on_time_step_prepare" ELSE "done"
    /\ evals' = ZeroEvals
    /\ log' = <<>>
    /\ solves' = [c \in Cohorts |-> 0]
    /\ before' = pop
    /\ UNCHANGED <<data, components, mods, pop, dis, acute>>

Next ==
    \/ \E self \in Catalog : Setup(self)
    \/ InitializeSimulants
    \/ BasePopulationPrepare
    \/ DiseasePrepare
    \/ MortalityStep
    \/ DisabilityStep
    \/ StepForward

Spec == Init /\ [][Next]_vars

----------------------------------------------------------------------------
(* Properties                                                              *)

\* Mortality.on_time_step of the current step has run
AfterMortality == pc \in {"Disability.on_time_step", "step_forward"}

\* every handler of the current step has run
AfterDisability == pc = "step_forward"

\* the components whose setup registers a modifier on mortality_rate, and
\* on yld_rate
OnMortalityRate ==
    {"AcuteDisease", "Disease", "MortalityShift", "MortalityEffects"}

OnYldRate == {"AcuteDisease", "Disease", "YLDShift"}

\* every component of a class in classes has a modifier on pipeline p
AllRegistered(classes, p) ==
    \A k \in 1..Len(components) :
        components[k].cls \in classes =>
            \E j \in 1..Len(mods[p]) : mods[p][j].self = components[k]

\* C1: whatever components are registered, no modifier is ever registered
\* on bau_mortality_rate or bau_yld_rate, and after the handlers of a step
\* the bau_ columns of every tracked cohort are those computed from the
\* base lookup rates alone (bau_acmr and bau_yld_rate are the rescaled
\* lookups; bau_deaths, bau_population, bau_person_years and bau_HALY
\* follow from them and from the bau_population the step began with),
\* while acmr and yld_rate are the values of the pipelines mortality_rate
\* and yld_rate, on which every registering component has its modifier.
C1_BauColumnsFromBaseRates ==
    /\ mods["bau_mortality_rate"] = <<>>
    /\ mods["bau_yld_rate"] = <<>>
    /\ AllRegistered(OnMortalityRate, "mortality_rate")
    /\ AllRegistered(OnYldRate, "yld_rate")
    /\ \A c \in Tracked :
        /\ AfterMortality =>
             LET rate == Rescale(MortalityData(AgeYears(c)))
                 pr == SCALE - Exp(-rate)
             IN  /\ pop[c].bau_acmr = rate
                 /\ pop[c].bau_deaths = Mul(before[c].bau_population, pr)
                 /\ pop[c].bau_population =
                        Mul(before[c].bau_population, SCALE - pr)
                 /\ pop[c].bau_person_years =
                        Mul(pop[c].bau_population
                            + Mul(SCALE \div 2, pop[c].bau_deaths),
                            YearsPerTimestep)
                 /\ pop[c].acmr =
                        RateProducer("mortality_rate",
                                     MortalityData(AgeYears(c)), c,
                                     Eval0(c)).v
        /\ AfterDisability =>
             LET rate == Rescale(YldData(AgeYears(c)))
             IN  /\ pop[c].bau_yld_rate = rate
                 /\ pop[c].bau_HALY =
                        Mul(pop[c].bau_person_years, SCALE - rate)
                 /\ pop[c].yld_rate =
                        RateProducer("yld_rate", YldData(AgeYears(c)), c,
                                     Eval0(c)).v

\* C1 witness: a step has ended in which modifiers on mortality_rate and
\* yld_rate made a tracked cohort's acmr and yld_rate differ from the BAU
\* ones
C1_Witness ==
    /\ AfterDisability
    /\ mods["mortality_rate"] # <<>>
    /\ mods["yld_rate"] # <<>>
    /\ \E c \in Tracked :
          /\ pop[c].acmr # pop[c].bau_acmr
          /\ pop[c].yld_rate # pop[c].bau_yld_rate
          /\ pop[c].bau_deaths > 0

\* only Disease components and AcuteDisease components with no_bau false
\* are registered besides the population components
OnlyBauComponents ==
    \A k \in 1..Len(components) :
        \/ components[k].cls = "Disease"
        \/ components[k].cls = "AcuteDisease" /\ ~components[k].flag

\* C2: when only Disease components and AcuteDisease components with
\* no_bau false are registered (so no pipeline of an intervention track has
\* a modifier), the intervention columns of every cohort equal their bau_
\* counterparts in every state of the run: acmr, yld_rate, population,
\* deaths, person_years and HALY.
C2_TracksAgreeWithoutIntervention ==
    (pc # "setup" /\ OnlyBauComponents) =>
        \A c \in Cohorts :
            /\ pop[c].acmr = pop[c].bau_acmr
            /\ pop[c].yld_rate = pop[c].bau_yld_rate
            /\ pop[c].population = pop[c].bau_population
            /\ pop[c].pr_death = pop[c].bau_pr_death
            /\ pop[c].deaths = pop[c].bau_deaths
            /\ pop[c].person_years = pop[c].bau_person_years
            /\ pop[c].HALY = pop[c].bau_HALY

\* C2 witness: a run with a chronic Disease and an AcuteDisease with BAU
\* has ended a step in which the disease was re-solved and a cohort died
C2_Witness ==
    /\ OnlyBauComponents
    /\ Of("Disease") # {}
    /\ Of("AcuteDisease") # {}
    /\ AfterDisability
    /\ \E c \in Tracked : solves[c] = 1 /\ pop[c].deaths > 0

----------------------------------------------------------------------------

\* the phase, 1 to 4, of an entry of log; 0 for the entry of a handler of
\* time_step
Phase(e) ==
    CASE e = "BasePopulation.on_time_step_prepare" -> 1
      [] e = "Disease.on_time_step_prepare" -> 2
      [] e \in {"mortality_rate", "bau_mortality_rate", "yld_rate",
                "bau_yld_rate"} -> 3
      [] e \in {"update population deaths person_years", "update HALY"} -> 4
      [] OTHER -> 0

\* C3 as stated: within a step the phases (1) ageing, (2) disease update,
\* (3) evaluation of the mortality_rate and yld_rate pipelines, (4) writing
\* of population, deaths, person_years and HALY happen in this order.
C3_PhasesInOrder ==
    \A i, j \in 1..Len(log) :
        (i < j /\ Phase(log[i]) # 0 /\ Phase(log[j]) # 0) =>
            Phase(log[i]) <= Phase(log[j])

\* what a step with tracked cohorts does, in order
StepLog ==
    <<"BasePopulation.on_time_step_prepare">>
    \o (IF HasDisease THEN <<"Disease.on_time_step_prepare">> ELSE <<>>)
    \o <<"Mortality.on_time_step", "mortality_rate", "bau_mortality_rate",
         "update population deaths person_years",
         "Disability.on_time_step", "yld_rate", "bau_yld_rate",
         "update HALY">>

\* the columns of the disease before its last update, as far as the update
\* reads them
BeforeUpdate(x) ==
    [x EXCEPT !.S = x.S_previous, !.C = x.C_previous,
              !.S_intervention = x.S_intervention_previous,
              !.C_intervention = x.C_intervention_previous]

\* C3 (amended): within every step with tracked cohorts the handlers run in
\* this order: (1) BasePopulation ages and retires, (2) the Disease evolves
\* its compartments, (3) mortality_rate and bau_mortality_rate are
\* evaluated and population, deaths and person_years written from them,
\* (4) yld_rate and bau_yld_rate are evaluated and HALY written from them;
\* the disease update of a step is the one computed from the rates looked
\* up at the age the step has advanced to, and the HALY of a step is
\* computed from the person_years written in the same step.
C3_HandlersInOrder ==
    /\ (AfterDisability /\ Tracked # {}) => log = StepLog
    /\ \A c \in Tracked :
        /\ (log # <<>> /\ step > 0 /\ pc # "Disease.on_time_step_prepare"
            /\ solves[c] = 1) =>
             /\ pop[c].age = before[c].age + AgeIncrement
             /\ \E rates \in {[k \in Tracked |-> DiseaseRates(TheDisease, k)]} :
                  \E zero_r \in {\A k \in Tracked : rates[k].r = 0} :
                     dis[c] = UpdatedDisease(BeforeUpdate(dis[c]), rates[c],
                                             zero_r /\ TheDisease.flag, zero_r)
        /\ AfterDisability =>
             /\ pop[c].person_years =
                    Mul(pop[c].population + Mul(SCALE \div 2, pop[c].deaths),
                        YearsPerTimestep)
             /\ pop[c].deaths = Mul(before[c].population, pop[c].pr_death)
             /\ pop[c].HALY =
                    Mul(pop[c].person_years, SCALE - pop[c].yld_rate)

\* C3 witness: a step after the first has ended in which a cohort was aged
\* into the next incidence bracket, its disease re-solved and its HALY
\* written
C3_Witness ==
    /\ AfterDisability
    /\ step > 0
    /\ \E c \in Tracked :
          /\ solves[c] = 1
          /\ before[c].age < 60 * QuarterDaysPerYear
          /\ pop[c].age >= 60 * QuarterDaysPerYear
          /\ pop[c].HALY > 0
          /\ dis[c].S # dis[c].S_previous

\* C4 as stated: in every step every rate pipeline is evaluated at most
\* once per cohort.
C4_EveryPipelineAtMostOnce ==
    \A p \in Pipelines : \A c \in Cohorts : evals[p][c] <= 1

\* the AcuteDisease component called d has been set up; with no_bau = b
HasAcute(d, b) ==
    \E k \in Of("AcuteDisease") :
        components[k].name = d /\ components[k].flag = b

\* C4 (amended): in every step mortality_rate, bau_mortality_rate, yld_rate
\* and bau_yld_rate are evaluated exactly once per tracked cohort (never
\* for an untracked one) and every pipeline of the chronic Disease at most
\* once, so the modifiers with side effects, which are registered on
\* mortality_rate and yld_rate only, run once; the pipelines
\* '<d>_intervention.excess_mortality' and '<d>_intervention.yld_rate' of
\* an AcuteDisease d are evaluated twice per tracked cohort, and so are
\* '<d>.excess_mortality' and '<d>.yld_rate' unless d has no_bau, in which
\* case they are not evaluated at all.
C4_EvaluationCounts ==
    \A c \in Cohorts :
        /\ \A p \in {"mortality_rate", "bau_mortality_rate"} :
              evals[p][c] = IF AfterMortality /\ c \in Tracked THEN 1 ELSE 0
        /\ \A p \in {"yld_rate", "bau_yld_rate"} :
              evals[p][c] = IF AfterDisability /\ c \in Tracked THEN 1 ELSE 0
        /\ \A p \in {BauIncidence("chd"), IntIncidence("chd"),
                     BauRemission("chd"), BauExcessMortality("chd"),
                     BauYldRate("chd")} : evals[p][c] <= 1
        /\ \A d \in AcuteNames :
              /\ evals[IntExcessMortality(d)][c] =
                    IF AfterMortality /\ c \in Tracked
                       /\ (HasAcute(d, TRUE) \/ HasAcute(d, FALSE))
                    THEN 2 ELSE 0
              /\ evals[BauExcessMortality(d)][c] =
                    IF AfterMortality /\ c \in Tracked /\ HasAcute(d, FALSE)
                    THEN 2 ELSE 0
              /\ evals[IntYldRate(d)][c] =
                    IF AfterDisability /\ c \in Tracked
                       /\ (HasAcute(d, TRUE) \/ HasAcute(d, FALSE))
                    THEN 2 ELSE 0
              /\ evals[BauYldRate(d)][c] =
                    IF AfterDisability /\ c \in Tracked /\ HasAcute(d, FALSE)
                    THEN 2 ELSE 0

\* C4 witness: a step has ended in which an AcuteDisease with BAU and the
\* chronic Disease were evaluated for a tracked cohort
C4_Witness ==
    /\ AfterDisability
    /\ HasAcute("anxiety", FALSE)
    /\ \E c \in Tracked :
          /\ evals["mortality_rate"][c] = 1
          /\ evals[IntExcessMortality("anxiety")][c] = 2
          /\ evals[BauYldRate("anxiety")][c] = 2
          /\ solves[c] = 1
          /\ evals[BauYldRate("chd")][c] = 1

RECURSIVE TopModifiers(_, _, _)
\* the modifiers of the pipeline p (mortality_rate with the classes
\* OnMortalityRate, or yld_rate with OnYldRate) that the first k components
\* of the model specification contribute, in the order of the specification
TopModifiers(p, classes, k) ==
    IF k = 0 THEN <<>>
    ELSE LET self == components[k]
             fn == IF p = "yld_rate" THEN "disability_adjustment"
                   ELSE IF self.cls = "MortalityEffects"
                        THEN "mortality_rate_adjustment"
                        ELSE "mortality_adjustment"
         IN  TopModifiers(p, classes, k - 1)
             \o (IF self.cls \in classes
                 THEN <<Modifier(self.cls \o "." \o fn, self, "")>>
                 ELSE <<>>)

\* the model specification lists, after the population components, the two
\* components of the classes and names given, in this order, and no other
OnlyTheTwo(cls1, name1, cls2, name2) ==
    /\ Len(components) = 2
    /\ components[1].cls = cls1 /\ components[1].name = name1
    /\ components[2].cls = cls2 /\ components[2].name = name2

C8_AgeAdvancedOncePerLaterStep ==
    /\ \A c \in Cohorts :
        /\ (pc # "setup" /\ step = 0) => pop[c].age = data.age[c]
        /\ (step > 0 /\ log = <<>>) => pop[c].age = before[c].age
        /\ (step > 0 /\ log # <<>> /\ before[c].tracked) =>
              /\ pop[c].age - before[c].age = 4 * data.step_size
              /\ (pop[c].age - before[c].age) * 36525 =
                    data.step_size * 100 * QuarterDaysPerYear
        /\ (step > 0 /\ ~before[c].tracked) => pop[c].age = before[c].age
    /\ (log = <<>> \/ log = <<"BasePopulation.on_time_step_prepare">>) =>
          /\ evals = ZeroEvals
          /\ \A c \in Cohorts : solves[c] = 0
    /\ log # <<>> => log[1] = "BasePopulation.on_time_step_prepare"

\* C8 witness: the third step has ended and a cohort has the age it began
\* with and two steps more
C8_Witness ==
    /\ AfterDisability
    /\ step = 2
    /\ \E c \in Tracked :
          /\ pop[c].age = data.age[c] + 2 * AgeIncrement
          /\ evals["mortality_rate"][c] = 1

\* the handlers of time_step__prepare of the current step have run
AfterPrepare ==
    pc \in {"Mortality.on_time_step", "Disability.on_time_step",
            "step_forward"}

\* C9 as stated: the compartments of the chronic Disease are re-solved
\* exactly once for every tracked cohort in every step other than the
\* first, also when several steps fall in the start year.
C9_SolvedInEveryLaterStep ==
    (HasDisease /\ AfterPrepare) =>
        \A c \in Tracked : solves[c] = IF step > 0 THEN 1 ELSE 0

\* C9 (amended): the compartments of the chronic Disease are re-solved
\* exactly once for every tracked cohort in every step whose clock year is
\* after the start year, and not at all in the steps of the start year, in
\* which they keep their initial values; with a step shorter than a year
\* several steps are skipped.
C9_SolvedInStepsAfterStartYear ==
    \A c \in Cohorts :
        /\ solves[c] <= 1
        /\ ~pop[c].tracked => solves[c] = 0
        /\ (HasDisease /\ AfterPrepare /\ pop[c].tracked) =>
              /\ solves[c] = IF ClockYear > 0 THEN 1 ELSE 0
              /\ ClockYear = 0 => dis[c] = InitialDisease(c)

\* C9 witness: with a step of 180 days the third step is the first of the
\* next year: the disease is re-solved in it from its initial state, which
\* the second step has left alone
C9_Witness ==
    /\ HasDisease
    /\ AfterPrepare
    /\ step = 2
    /\ data.step_size = 180
    /\ \E c \in Tracked :
          /\ solves[c] = 1
          /\ dis[c].S_previous = InitialDisease(c).S
          /\ dis[c].C_previous = InitialDisease(c).C
          /\ dis[c].S # dis[c].S_previous

\* the general equations were used in the last update of the disease, with
\* q = 0 on the BAU track of cohort c: no remission and i = f
DegenerateUpdate(c) ==
    /\ HasDisease
    /\ AfterPrepare
    /\ solves[c] = 1
    /\ ~TheDisease.flag
    /\ DiseaseRates(TheDisease, c).r = 0
    /\ DiseaseRates(TheDisease, c).i_bau = DiseaseRates(TheDisease, c).f

\* C10: when q = 0 in the general update (i = f and r = 0) the new S and C
\* of the cohort are the limiting solution S * exp(-i) and
\* (C + i * S) * exp(-i), to within a thousandth of the unit population.
C10_LimitingSolutionAtZeroQ ==
    \A c \in Tracked :
        DegenerateUpdate(c) =>
            \E i \in {DiseaseRates(TheDisease, c).i_bau} :
                /\ Abs(dis[c].S - Mul(dis[c].S_previous, Exp(-i))) <= SCALE
                /\ Abs(dis[c].C
                       - Mul(dis[c].C_previous + Mul(i, dis[c].S_previous),
                             Exp(-i))) <= SCALE

----------------------------------------------------------------------------
(* One step of a chronic disease on given columns and rates                *)

\* the S, C, S_previous and C_previous, on both tracks, a cohort may have
\* before the update, in units of the 1000 of the disease
StartColumns ==
    { [S |-> 900, C |-> 100, S_previous |-> 910, C_previous |-> 90],
      [S |-> 800, C |-> 200, S_previous |-> 800, C_previous |-> 200] }

\* the values the rate producers may give for the step
IncidenceRates == {0, 300, 500, 1000}

RemissionRates == {0, 200, 1000}

ExcessMortalityRates == {0, 500, 1000}

\* the eight columns of a cohort that holds the columns x on both tracks
BothTracks(x) ==
    [S |-> x.S * SCALE, C |-> x.C * SCALE,
     S_previous |-> x.S_previous * SCALE,
     C_previous |-> x.C_previous * SCALE,
     S_intervention |-> x.S * SCALE, C_intervention |-> x.C * SCALE,
     S_intervention_previous |-> x.S_previous * SCALE,
     C_intervention_previous |-> x.C_previous * SCALE]

\* a simulation of the population components and one Disease in a step
\* after the start year, BasePopulation's on_time_step_prepare done, with
\* the columns of the disease and the values of its four rate producers
\* given
UpdateInit ==
    /\ pc = "Disease.on_time_step_prepare"
    /\ step = 1
    /\ \E i_bau \in IncidenceRates, i_int \in IncidenceRates,
          r \in RemissionRates, f \in ExcessMortalityRates :
         data = [step_size |-> 365, remission |-> "zero",
                 age |-> <<70 * QuarterDaysPerYear, 70 * QuarterDaysPerYear>>,
                 rates |-> [i_bau |-> i_bau, i_int |-> i_int, r |-> r,
                            f |-> f]]
    /\ \E simplified \in BOOLEAN :
         components = <<Component("Disease", "chd", simplified, 0, NoAffects)>>
    /\ mods = ComponentSetup(components[1], [p \in Pipelines |-> <<>>])
    /\ pop = [c \in Cohorts |-> InitialCohort(c)]
    /\ \E x \in StartColumns : dis = [c \in Cohorts |-> BothTracks(x)]
    /\ acute = [d \in AcuteNames |-> [c \in Cohorts |-> ZeroAcute]]
    /\ evals = ZeroEvals
    /\ log = <<"BasePopulation.on_time_step_prepare">>
    /\ solves = [c \in Cohorts |-> 0]
    /\ before = pop

\* the rates Disease.on_time_step_prepare extracts for cohort c when its
\* rate producers give the values of data.rates
GivenRates(c) ==
    [i_bau |-> data.rates.i_bau, i_int |-> data.rates.i_int,
     r |-> data.rates.r, f |-> data.rates.f,
     n |-> [p \in Pipelines |->
              IF p \in {BauIncidence("chd"), IntIncidence("chd"),
                        BauRemission("chd"), BauExcessMortality("chd")}
              THEN evals[p][c] + 1 ELSE evals[p][c]]]

\* Disease.on_time_step_prepare with the given rates
DiseaseUpdate ==
    /\ pc = "Disease.on_time_step_prepare"
    /\ "rates" \in DOMAIN data
    /\ pc' = NextHandler(pc)
    /\ log' = Append(log, pc)
    /\ \E rates \in {[c \in Tracked |-> GivenRates(c)]} :
          Solved(TheDisease, rates, \A c \in Tracked : rates[c].r = 0)
    /\ UNCHANGED <<step, data, components, mods, pop, acute, before>>

UpdateNext ==
    \/ DiseaseUpdate
    \/ MortalityStep
    \/ DisabilityStep

UpdateSpec == UpdateInit /\ [][UpdateNext]_vars

\* the general equations were used in the last update of cohort c, with the
\* given rates
GeneralRan(c) ==
    /\ "rates" \in DOMAIN data
    /\ AfterPrepare
    /\ solves[c] = 1
    /\ ~TheDisease.flag

\* the distance of the columns x after an update from the values S and C
Distance(S, C, new) == Max2(Abs(S - new.S), Abs(C - new.C))

\* what the arithmetic of the model may lose in one update: a thousandth
\* of the 1000 of the disease
Tolerance == SCALE

\* C11: for every (i, f) with r = 0, i = f included, the general update and
\* the fast path S * exp(-i), C * exp(-f) + S - S_new give the same new S
\* and C from the same S and C, on both tracks.
C11_GeneralAgreesWithFastPath ==
    \A c \in Tracked :
        (GeneralRan(c) /\ data.rates.r = 0) =>
            /\ Distance(dis[c].S, dis[c].C,
                        SimplifiedUpdate(dis[c].S_previous, dis[c].C_previous,
                                         data.rates.i_bau, data.rates.f))
                  <= Tolerance
            /\ Distance(dis[c].S_intervention, dis[c].C_intervention,
                        SimplifiedUpdate(dis[c].S_intervention_previous,
                                         dis[c].C_intervention_previous,
                                         data.rates.i_int, data.rates.f))
                  <= Tolerance

\* C12: one step of the general update with excess mortality f = 0
\* conserves S + C on both tracks, for every incidence i and remission r.
C12_GeneralConservesWithoutMortality ==
    \A c \in Tracked :
        (GeneralRan(c) /\ data.rates.f = 0) =>
            /\ Abs(dis[c].S + dis[c].C
                   - (dis[c].S_previous + dis[c].C_previous)) <= Tolerance
            /\ Abs(dis[c].S_intervention + dis[c].C_intervention
                   - (dis[c].S_intervention_previous
                      + dis[c].C_intervention_previous)) <= Tolerance

\* C12 witness: the general update has moved a cohort from S to C and back
\* with a remission and an incidence above zero and no excess mortality
C12_Witness ==
    \E c \in Tracked :
        /\ GeneralRan(c)
        /\ data.rates.f = 0
        /\ data.rates.r > 0
        /\ data.rates.i_bau > 0
        /\ dis[c].S < dis[c].S_previous
        /\ dis[c].C > dis[c].C_previous

\* the cohort c held S = 900, C = 100 on both tracks before the update and
\* the rates are r = 0, f = 0.1, BAU incidence 0.05 and intervention
\* incidence 0.03; the update and both pipelines of the step were evaluated
Scenario13(c) ==
    /\ "rates" \in DOMAIN data
    /\ AfterDisability
    /\ solves[c] = 1
    /\ dis[c].S_previous = 900 * SCALE /\ dis[c].C_previous = 100 * SCALE
    /\ dis[c].S_intervention_previous = 900 * SCALE
    /\ dis[c].C_intervention_previous = 100 * SCALE
    /\ data.rates = [i_bau |-> 500, i_int |-> 300, r |-> 0, f |-> 1000]

\* what Disease.mortality_adjustment and Disease.disability_adjustment
\* have added to the rates of cohort c in a step of 365 days, in which the
\* rate producers rescale nothing
MortalityDelta(c) == pop[c].acmr - pop[c].bau_acmr

YldDelta(c) == pop[c].yld_rate - pop[c].bau_yld_rate

\* C13 as stated: in the scenario both deltas are below zero, with the
\* general and with the simplified update.
C13_BothDeltasBelowZero ==
    \A c \in Tracked :
        Scenario13(c) => (MortalityDelta(c) < 0 /\ YldDelta(c) < 0)

\* C13 (amended): in the scenario the yld delta is below zero with either
\* update; the mortality delta is below zero with the general update and
\* zero with the simplified one, whose new S + C does not depend on the
\* incidence.
C13_DeltasInScenario ==
    \A c \in Tracked :
        Scenario13(c) =>
            /\ YldDelta(c) < 0
            /\ ~TheDisease.flag => MortalityDelta(c) < 0
            /\ TheDisease.flag =>
                  /\ MortalityDelta(c) = 0
                  /\ dis[c].S + dis[c].C
                        = dis[c].S_intervention + dis[c].C_intervention

\* C13 witness: the scenario with the simplified update
C13_Witness ==
    \E c \in Tracked :
        /\ Scenario13(c)
        /\ TheDisease.flag
        /\ dis[c].C_intervention < dis[c].C
        /\ pop[c].acmr = pop[c].bau_acmr

----------------------------------------------------------------------------

\* C14: in every population step and on each track the deaths are the
\* population before the step times 1 - exp(-hazard); with a hazard above
\* zero the population after the step is strictly smaller than before, and
\* with a hazard of zero it is unchanged.
C14_PopulationDecays ==
    \A c \in Tracked :
        AfterMortality =>
            /\ pop[c].deaths
                  = Mul(before[c].population, SCALE - Exp(-pop[c].acmr))
            /\ pop[c].bau_deaths
                  = Mul(before[c].bau_population,
                        SCALE - Exp(-pop[c].bau_acmr))
            /\ pop[c].acmr > 0 => pop[c].population < before[c].population
            /\ pop[c].acmr = 0 =>
                  /\ pop[c].population = before[c].population
                  /\ pop[c].deaths = 0
            /\ pop[c].bau_acmr > 0 =>
                  pop[c].bau_population < before[c].bau_population
            /\ pop[c].bau_acmr = 0 =>
                  /\ pop[c].bau_population = before[c].bau_population
                  /\ pop[c].bau_deaths = 0

\* C14 witness: in one step a cohort has lost people on the intervention
\* track under a hazard above zero and none on the BAU track, whose hazard
\* is zero
C14_Witness ==
    /\ AfterMortality
    /\ \E c \in Tracked :
          /\ pop[c].acmr > 0
          /\ pop[c].population < before[c].population
          /\ pop[c].bau_acmr = 0
          /\ pop[c].bau_population = before[c].bau_population

\* C15 as stated: person_years is (population after the step + half the
\* deaths) times step_size / 365.25, the years per step of the ageing, on
\* both tracks.
C15_PersonYearsOfAgeingYear ==
    \A c \in Tracked :
        AfterMortality =>
            /\ pop[c].person_years
                  = Mul(pop[c].population + Mul(SCALE \div 2, pop[c].deaths),
                        YearsPerTimestepOfAgeing)
            /\ pop[c].bau_person_years
                  = Mul(pop[c].bau_population
                        + Mul(SCALE \div 2, pop[c].bau_deaths),
                        YearsPerTimestepOfAgeing)

\* C15 (amended): person_years is (population after the step + half the
\* deaths) times step_size / 365 on both tracks; this factor is greater
\* than the step_size / 365.25 years by which the cohorts age in a step.
C15_PersonYearsOfYearOf365Days ==
    /\ (data.step_size * SCALE) \div 365 > YearsPerTimestepOfAgeing
    /\ (AgeIncrement * SCALE) \div QuarterDaysPerYear = YearsPerTimestepOfAgeing
    /\ \A c \in Tracked :
        AfterMortality =>
            /\ pop[c].person_years
                  = Mul(pop[c].population + Mul(SCALE \div 2, pop[c].deaths),
                        (data.step_size * SCALE) \div 365)
            /\ pop[c].bau_person_years
                  = Mul(pop[c].bau_population
                        + Mul(SCALE \div 2, pop[c].bau_deaths),
                        (data.step_size * SCALE) \div 365)

\* C15 witness: a step of 365 days has given a cohort the person-years of a
\* whole year, people who died counted half, while it aged by less
C15_Witness ==
    /\ AfterMortality
    /\ data.step_size = 365
    /\ step > 0
    /\ \E c \in Tracked :
          /\ pop[c].deaths > 0
          /\ pop[c].person_years
                = pop[c].population + Mul(SCALE \div 2, pop[c].deaths)
          /\ pop[c].age - before[c].age < QuarterDaysPerYear

\* C16: at initialisation every chronic disease sets C = 1000 * prevalence
\* and S = 1000 - C for every cohort, and the previous and the intervention
\* columns to the same S and C, so that S + C = 1000 on both tracks; the
\* columns stay so until the first update.
C16_InitialDiseaseColumns ==
    (pc # "setup" /\ HasDisease /\ step = 0) =>
        \A c \in Cohorts :
            /\ dis[c].C =
                  Mul(1000 * SCALE,
                      PrevalenceData(data.age[c] \div QuarterDaysPerYear))
            /\ dis[c].S = 1000 * SCALE - dis[c].C
            /\ dis[c].S_previous = dis[c].S
            /\ dis[c].S_intervention = dis[c].S
            /\ dis[c].S_intervention_previous = dis[c].S
            /\ dis[c].C_previous = dis[c].C
            /\ dis[c].C_intervention = dis[c].C
            /\ dis[c].C_intervention_previous = dis[c].C
            /\ dis[c].S + dis[c].C = 1000 * SCALE
            /\ dis[c].S_intervention + dis[c].C_intervention = 1000 * SCALE

\* C16 witness: the cohorts were created with a Disease set up, one with a
\* prevalence of 0.1 and one with 0.2
C16_Witness ==
    /\ pc = "BasePopulation.on_time_step_prepare"
    /\ step = 0
    /\ HasDisease
    /\ dis[1].C = 100 * SCALE /\ dis[1].S_intervention_previous = 900 * SCALE
    /\ dis[2].C = 200 * SCALE /\ dis[2].S_previous = 800 * SCALE

\* only AcuteDisease components and the components that modify the
\* pipelines of an acute disease are set up besides the population
\* components
OnlyAcuteComponents ==
    \A k \in 1..Len(components) :
        components[k].cls \in {"AcuteDisease", "ModifyAcuteDiseaseYLD",
                               "ModifyAcuteDiseaseMortality",
                               "LockdownAcuteDisease"}

\* the value of the rate pipeline p of a disease for cohort c in this step,
\* its source giving src
RateOf(p, src, c) == Rescale(FoldRateModifiers(mods[p], c, src))

\* what the AcuteDisease d, if set up, is to add to a rate of cohort c:
\* the value of its intervention pipeline int, less that of its BAU
\* pipeline bau unless it has no_bau
AcuteDelta(d, int, bau, src, c) ==
    IF HasAcute(d, TRUE) THEN RateOf(int, src, c)
    ELSE IF HasAcute(d, FALSE) THEN RateOf(int, src, c) - RateOf(bau, src, c)
    ELSE 0

\* C17: every AcuteDisease adds to mortality_rate its intervention excess
\* mortality, less the BAU excess mortality unless it has no_bau, and to
\* yld_rate the like of its disability rates, and changes the incoming
\* value in no other way: with acute diseases and modifiers of their
\* pipelines only, the rates of a step are the base rates plus these
\* deltas.
C17_AcuteDeltasAdded ==
    OnlyAcuteComponents =>
        \A c \in Tracked :
            /\ AfterMortality =>
                 pop[c].acmr =
                    Rescale(MortalityData(AgeYears(c))
                       + AcuteDelta("covid", IntExcessMortality("covid"),
                                    BauExcessMortality("covid"),
                                    AcuteMortalityData("covid", AgeYears(c)),
                                    c)
                       + AcuteDelta("anxiety", IntExcessMortality("anxiety"),
                                    BauExcessMortality("anxiety"),
                                    AcuteMortalityData("anxiety", AgeYears(c)),
                                    c))
            /\ AfterDisability =>
                 pop[c].yld_rate =
                    Rescale(YldData(AgeYears(c))
                       + AcuteDelta("covid", IntYldRate("covid"),
                                    BauYldRate("covid"),
                                    AcuteMorbidityData("covid", AgeYears(c)),
                                    c)
                       + AcuteDelta("anxiety", IntYldRate("anxiety"),
                                    BauYldRate("anxiety"),
                                    AcuteMorbidityData("anxiety", AgeYears(c)),
                                    c))

\* C17 witness: a step has ended with an AcuteDisease with BAU whose
\* intervention rates a modifier has halved, and with rates below the BAU
\* ones
C17_Witness ==
    /\ AfterDisability
    /\ OnlyAcuteComponents
    /\ HasAcute("anxiety", FALSE)
    /\ \E c \in Tracked :
          /\ pop[c].bau_acmr > 0
          /\ pop[c].acmr < pop[c].bau_acmr

\* the bookkeeping columns of the acute disease d that a step writes for
\* the tracked cohort c once Mortality.on_time_step has run: the deaths of
\* the population the step began with under the rates of this step
StepDeaths(d, c) ==
    [deaths |->
        Mul(Mul(before[c].population,
                RateOf(IntExcessMortality(d),
                       AcuteMortalityData(d, AgeYears(c)), c)),
            (data.step_size * SCALE) \div 365),
     deaths_bau |->
        IF HasAcute(d, TRUE) THEN 0
        ELSE Mul(Mul(before[c].bau_population,
                     RateOf(BauExcessMortality(d),
                            AcuteMortalityData(d, AgeYears(c)), c)),
                 (data.step_size * SCALE) \div 365)]

\* and once Disability.on_time_step has run: the HALY lost from the
\* person-years of this step
StepHALY(d, c) ==
    [HALY |->
        - Mul(pop[c].person_years,
              RateOf(IntYldRate(d), AcuteMorbidityData(d, AgeYears(c)), c)),
     HALY_bau |->
        IF HasAcute(d, TRUE) THEN 0
        ELSE - Mul(pop[c].bau_person_years,
                   RateOf(BauYldRate(d), AcuteMorbidityData(d, AgeYears(c)),
                          c))]

\* C18: the columns <name>_deaths, <name>_deaths_bau, <name>_HALY and
\* <name>_HALY_bau of an acute disease are zero at initialisation; after the
\* handlers of a step they hold, for every tracked cohort, the contribution
\* of that step alone: deaths = population * rate * years_per_timestep and
\* HALY = -person_years * rate, the bau columns with the bau population, the
\* bau person-years and the BAU rate (and left at zero under no_bau); the
\* population update does not depend on them.
C18_AcuteColumnsOfTheStepOnly ==
    \A d \in AcuteNames : \A c \in Cohorts :
        /\ (pc = "setup" \/ (step = 0 /\ ~AfterMortality)) =>
              acute[d][c] = ZeroAcute
        /\ ~(HasAcute(d, TRUE) \/ HasAcute(d, FALSE)) =>
              acute[d][c] = ZeroAcute
        /\ (pop[c].tracked /\ AfterMortality
            /\ (HasAcute(d, TRUE) \/ HasAcute(d, FALSE))) =>
              /\ acute[d][c].deaths = StepDeaths(d, c).deaths
              /\ acute[d][c].deaths_bau = StepDeaths(d, c).deaths_bau
              /\ pop[c].population
                    = Mul(before[c].population, Exp(-pop[c].acmr))
              /\ pop[c].bau_population
                    = Mul(before[c].bau_population, Exp(-pop[c].bau_acmr))
        /\ (pop[c].tracked /\ AfterDisability
            /\ (HasAcute(d, TRUE) \/ HasAcute(d, FALSE))) =>
              /\ acute[d][c].HALY = StepHALY(d, c).HALY
              /\ acute[d][c].HALY_bau = StepHALY(d, c).HALY_bau

\* C18 witness: the third step has ended with an acute disease with BAU
\* whose four columns hold less than the first step had put there
C18_Witness ==
    /\ AfterDisability
    /\ step = 2
    /\ HasAcute("anxiety", FALSE)
    /\ \E c \in Tracked :
          /\ acute["anxiety"][c].deaths > 0
          /\ acute["anxiety"][c].deaths_bau > 0
          /\ acute["anxiety"][c].HALY < 0
          /\ acute["anxiety"][c].HALY_bau < 0
          /\ acute["anxiety"][c].deaths_bau
                < Mul(Mul(PopulationData,
                          Rescale(AcuteMortalityData("anxiety", AgeYears(c)))),
                      YearsPerTimestep)

\* the factor scale * sigma + (1 - sigma) of this year's stage sigma
OwnFactor(scale) ==
    Mul(scale, StageData(ClockYear)) + (SCALE - StageData(ClockYear))

\* C19: for every disease d under lockdown.affects the modifier that
\* LockdownAcuteDisease registers on d's intervention pipelines multiplies
\* the rate by scale_d * sigma + (1 - sigma) with d's own scale factors,
\* also when the diseases have different scale factors.
C19_OwnScaleFactor ==
    /\ \A k \in Of("LockdownAcuteDisease") :
         \A j \in 1..Len(components[k].affects.mortality) :
            \A d \in {components[k].affects.mortality[j].d} :
               /\ \A i \in 1..Len(mods[IntExcessMortality(d)]) :
                     mods[IntExcessMortality(d)][i].self = components[k] =>
                        ApplyRateModifier(mods[IntExcessMortality(d)][i], 1,
                                          SCALE)
                           = OwnFactor(ScaleOf(components[k].affects.mortality,
                                               d))
               /\ \A i \in 1..Len(mods[IntYldRate(d)]) :
                     mods[IntYldRate(d)][i].self = components[k] =>
                        ApplyRateModifier(mods[IntYldRate(d)][i], 1, SCALE)
                           = OwnFactor(ScaleOf(components[k].affects.morbidity,
                                               d))
    /\ (OnlyTheTwo("AcuteDisease", "anxiety",
                   "LockdownAcuteDisease", "stage3and4") /\ AfterMortality) =>
          \A c \in Tracked :
             pop[c].acmr =
                Rescale(MortalityData(AgeYears(c))
                   + Rescale(Mul(AcuteMortalityData("anxiety", AgeYears(c)),
                                 OwnFactor(ScaleOf(LockdownAffects.mortality,
                                                   "anxiety"))))
                   - Rescale(AcuteMortalityData("anxiety", AgeYears(c))))

\* a modifier of a LockdownAcuteDisease is registered on the pipeline p
LockdownOn(p) ==
    \E i \in 1..Len(mods[p]) : mods[p][i].self.cls = "LockdownAcuteDisease"

\* C20: with sigma = 1 and a scale of 0.5 the stage modifier gives half the
\* incoming rate, with sigma = 0 the incoming rate whatever the scale; it
\* is on the pipelines '<disease>_intervention.excess_mortality' and
\* '<disease>_intervention.yld_rate' of the diseases under lockdown.affects
\* and on no other pipeline.
C20_StageModifier ==
    /\ \A p \in Pipelines :
          LockdownOn(p) =>
             \E d \in AcuteNames : p \in {IntExcessMortality(d), IntYldRate(d)}
    /\ \A k \in Of("LockdownAcuteDisease") :
          \A j \in 1..Len(components[k].affects.mortality) :
             /\ LockdownOn(IntExcessMortality(
                               components[k].affects.mortality[j].d))
             /\ LockdownOn(IntYldRate(components[k].affects.mortality[j].d))
    /\ \A c \in Tracked :
        /\ (OnlyTheTwo("AcuteDisease", "covid",
                       "LockdownAcuteDisease", "stage3and4")
            /\ AfterMortality /\ StageData(ClockYear) = SCALE) =>
              /\ pop[c].acmr =
                    Rescale(MortalityData(AgeYears(c))
                       + Rescale(AcuteMortalityData("covid", AgeYears(c))
                                 \div 2))
              /\ 2 * (AcuteMortalityData("covid", AgeYears(c)) \div 2)
                    = AcuteMortalityData("covid", AgeYears(c))
        /\ (OnlyTheTwo("AcuteDisease", "covid",
                       "LockdownAcuteDisease", "stage3and4")
            /\ AfterDisability /\ StageData(ClockYear) = 0) =>
              /\ pop[c].acmr =
                    Rescale(MortalityData(AgeYears(c))
                       + Rescale(AcuteMortalityData("covid", AgeYears(c))))
              /\ pop[c].yld_rate =
                    Rescale(YldData(AgeYears(c))
                       + Rescale(AcuteMorbidityData("covid", AgeYears(c))))
        /\ (OnlyTheTwo("AcuteDisease", "anxiety",
                       "LockdownAcuteDisease", "stage3and4")
            /\ AfterDisability /\ StageData(ClockYear) = 0) =>
              /\ pop[c].acmr = pop[c].bau_acmr
              /\ pop[c].yld_rate = pop[c].bau_yld_rate

\* C20 witness: with covid and the lockdown alone, a year of sigma = 1 gave
\* a cohort half the excess mortality of covid and the next year, of
\* sigma = 0, all of it
C20_Witness ==
    /\ OnlyTheTwo("AcuteDisease", "covid",
                  "LockdownAcuteDisease", "stage3and4")
    /\ AfterDisability
    /\ StageData(ClockYear) = 0
    /\ LockdownOn(IntExcessMortality("covid"))
    /\ \E c \in Tracked :
          /\ before[c].acmr > 0
          /\ pop[c].acmr > before[c].acmr
          /\ AgeYears(c) < 100

----------------------------------------------------------------------------
(* The setup of the interventions under the scales a configuration may     *)
(* give                                                                    *)

\* the values of intervention.<name>.yld_scale, intervention.<name>.
\* mortality_scale and of the entries of lockdown.affects
ConfiguredScales == {-5000, 0, 5000}

\* the lists of diseases lockdown.affects.mortality and
\* lockdown.affects.morbidity may have
AffectedDiseases == {<<"anxiety", "covid">>, <<"covid">>, <<"anxiety">>}

\* one dictionary of lockdown.affects: every disease of keys with scale s
Affects(keys, s) == [j \in 1..Len(keys) |-> [d |-> keys[j], scale |-> s]]

ConfiguredAffects ==
    {[mortality |-> Affects(km, sm), morbidity |-> Affects(kd, sd)] :
        km \in AffectedDiseases \ {<<"anxiety">>},
        kd \in AffectedDiseases \ {<<"covid">>},
        sm \in ConfiguredScales, sd \in ConfiguredScales}

\* the interventions with a configured scale a model specification may list
ConfiguredCatalog ==
    {Component(cls, d, FALSE, s, NoAffects) :
        cls \in {"ModifyAcuteDiseaseYLD", "ModifyAcuteDiseaseMortality"},
        d \in AcuteNames, s \in ConfiguredScales}
    \cup {Component("LockdownAcuteDisease", "stage3and4", FALSE, 0, a) :
             a \in ConfiguredAffects}

SetupInit ==
    /\ pc = "setup"
    /\ step = 0
    /\ data = [step_size |-> 365, remission |-> "zero",
               age |-> <<70 * QuarterDaysPerYear, 70 * QuarterDaysPerYear>>]
    /\ components = <<>>
    /\ mods = [p \in Pipelines |-> <<>>]
    /\ pop = [c \in Cohorts |-> ZeroCohort]
    /\ dis = [c \in Cohorts |-> ZeroDisease]
    /\ acute = [d \in AcuteNames |-> [c \in Cohorts |-> ZeroAcute]]
    /\ evals = ZeroEvals
    /\ log = <<>>
    /\ solves = [c \in Cohorts |-> 0]
    /\ before = [c \in Cohorts |-> ZeroCohort]

SetupNext == \E self \in ConfiguredCatalog : Setup(self)

SetupSpec == SetupInit /\ [][SetupNext]_vars

\* a scale configured for the component self is negative
NegativeScale(self) ==
    \/ self.scale < 0
    \/ \E j \in 1..Len(self.affects.mortality) :
          self.affects.mortality[j].scale < 0
    \/ \E j \in 1..Len(self.affects.morbidity) :
          self.affects.morbidity[j].scale < 0

\* C21: the setup of ModifyAcuteDiseaseMortality, ModifyAcuteDiseaseYLD and
\* LockdownAcuteDisease fails with an error when a configured scale is
\* negative, registering no modifier on any pipeline; with every scale 0 or
\* more the setup succeeds and registers the component's modifiers.
C21_NegativeScaleIsFatal ==
    [][\A self \in ConfiguredCatalog :
          Setup(self) =>
             IF NegativeScale(self)
             THEN pc' = "ValueError" /\ mods' = mods
             ELSE pc' = "setup" /\ mods' # mods]_vars

\* the disease d is a key of one dictionary of lockdown.affects
Listed(dict, d) == \E j \in 1..Len(dict) : dict[j].d = d

\* the call of the registered lambda m raises KeyError: the disease it looks
\* up is not a key of its dictionary
RaisesKeyError(m) ==
    \/ /\ m.fn = "LockdownAcuteDisease.mortality_lambda"
       /\ ~Listed(m.self.affects.mortality, m.d)
    \/ /\ m.fn = "LockdownAcuteDisease.morbidity_lambda"
       /\ ~Listed(m.self.affects.morbidity, m.d)

\* C26: LockdownAcuteDisease has a modifier on
\* '<d>_intervention.excess_mortality' for exactly the diseases d under
\* lockdown.affects.mortality and on '<d>_intervention.yld_rate' for exactly
\* the diseases d under lockdown.affects.morbidity, and no registered
\* modifier raises an error when called, also when the two sets differ.
C26_ExactlyTheListedDiseases ==
    \A k \in Of("LockdownAcuteDisease") :
       \A d \in AcuteNames :
          /\ LockdownOn(IntExcessMortality(d))
                <=> Listed(components[k].affects.mortality, d)
          /\ LockdownOn(IntYldRate(d))
                <=> Listed(components[k].affects.morbidity, d)
          /\ \A p \in {IntExcessMortality(d), IntYldRate(d)} :
                \A i \in 1..Len(mods[p]) : ~RaisesKeyError(mods[p][i])

----------------------------------------------------------------------------
(* The chronic disease across the cohorts of a batch                       *)

\* the columns cohort c had before the last update of the disease, which
\* the update has kept in its 'previous' columns
PriorColumns(c) ==
    [dis[c] EXCEPT !.S = dis[c].S_previous,
                   !.C = dis[c].C_previous,
                   !.S_intervention = dis[c].S_intervention_previous,
                   !.C_intervention = dis[c].C_intervention_previous]

\* the columns the update writes for cohort c with rates rt in the run that
\* differs in the remission of the other cohorts only, theirs being zero
OwnUpdate(c, rt) ==
    UpdatedDisease(PriorColumns(c), rt, TheDisease.flag /\ rt.r = 0,
                   rt.r = 0)

\* C22: the S and C columns written for a cohort in a step depend on its
\* own prior columns and its own rates only: they are the ones written in
\* the run that differs only in the remission rate of the other cohorts.
C22_OwnStateAndRatesOnly ==
    (HasDisease /\ AfterPrepare) =>
        \A c \in Tracked :
            solves[c] = 1 => dis[c] = OwnUpdate(c, DiseaseRates(TheDisease, c))

\* the components are a chronic disease and interventions on its rates
OnlyChronicComponents ==
    /\ HasDisease
    /\ \A k \in 1..Len(components) :
          components[k].cls \in {"Disease", "IncidenceShift"}

\* the evaluation state of a modifier called on cohort c with the value v
Called(c, v) == [Eval0(c) EXCEPT !.v = v]

\* the value Disease.mortality_adjustment returns for cohort c when it is
\* called n times in a row on the mortality rate of the lookup table
RECURSIVE MortalityAdjusted(_, _, _)
MortalityAdjusted(c, st, n) ==
    IF n = 0 THEN st
    ELSE MortalityAdjusted(c, DiseaseMortalityAdjustment(TheDisease, c, st),
                           n - 1)

\* the same for Disease.disability_adjustment
RECURSIVE DisabilityAdjusted(_, _, _)
DisabilityAdjusted(c, st, n) ==
    IF n = 0 THEN st
    ELSE DisabilityAdjusted(c, DiseaseDisabilityAdjustment(TheDisease, c, st),
                            n - 1)

\* the rate written in the step is the one the modifier returns on the
\* columns as they are after the handlers of the step, and every further
\* call adds the same delta
C23_SameValueWhenCalledAgain ==
    OnlyChronicComponents =>
        \A c \in Tracked :
           /\ AfterMortality =>
                \E st \in {Called(c, MortalityData(AgeYears(c)))} :
                   /\ pop[c].acmr = Rescale(MortalityAdjusted(c, st, 1).v)
                   /\ MortalityAdjusted(c, st, 3).v - st.v
                         = 3 * (MortalityAdjusted(c, st, 1).v - st.v)
                   /\ MortalityAdjusted(c, st, 3).ac = st.ac
           /\ AfterDisability =>
                \E st \in {Called(c, YldData(AgeYears(c)))} :
                   /\ pop[c].yld_rate = Rescale(DisabilityAdjusted(c, st, 1).v)
                   /\ DisabilityAdjusted(c, st, 3).v - st.v
                         = 3 * (DisabilityAdjusted(c, st, 1).v - st.v)
                   /\ DisabilityAdjusted(c, st, 3).ac = st.ac

\* the handlers of time_step, whose pipelines call the modifiers, leave the
\* columns of the disease and of the acute diseases alone and write to the
\* cohort table the columns of Mortality or Disability only
C23_NoColumnWritten ==
    (OnlyChronicComponents /\ (MortalityStep \/ DisabilityStep)) =>
        /\ dis' = dis
        /\ acute' = acute
        /\ \A c \in Tracked :
              /\ MortalityStep =>
                    pop'[c] = MortalityRow(pop[c],
                                           [rate |-> pop'[c].acmr,
                                            bau_rate |-> pop'[c].bau_acmr])
              /\ DisabilityStep =>
                    pop'[c] = DisabilityRow(pop[c],
                                            [rate |-> pop'[c].yld_rate,
                                             bau_rate |-> pop'[c].bau_yld_rate])

\* C23: Disease.mortality_adjustment and Disease.disability_adjustment
\* compute their deltas from the S and C written by the disease update of
\* the same step and change no column, so that calling them again in the
\* step gives the same value and the same state.
C23_ModifiersReadUpdatedColumnsOnly ==
    [] C23_SameValueWhenCalledAgain /\ [][C23_NoColumnWritten]_vars

\* C23 witness: after a disease update that made the two tracks differ,
\* both modifiers have changed the rates of a cohort
C23_Witness ==
    /\ OnlyTheTwo("Disease", "chd", "IncidenceShift", "chd")
    /\ AfterDisability
    /\ \E c \in Tracked :
          /\ solves[c] = 1
          /\ dis[c].S # dis[c].S_intervention
          /\ pop[c].acmr # pop[c].bau_acmr
          /\ pop[c].yld_rate # pop[c].bau_yld_rate

\* C24: every update of the chronic disease, with the simplified or the
\* general equations, leaves in S_previous and C_previous of both tracks the
\* S and C the cohort had just before it, also where q = 0; between two
\* updates no column of the disease changes.
C24_PreviousLagsByOneUpdate ==
    [][\A c \in Cohorts :
          IF pc = "Disease.on_time_step_prepare" /\ solves'[c] = solves[c] + 1
          THEN /\ dis'[c].S_previous = dis[c].S
               /\ dis'[c].C_previous = dis[c].C
               /\ dis'[c].S_intervention_previous = dis[c].S_intervention
               /\ dis'[c].C_intervention_previous = dis[c].C_intervention
          ELSE pc # "setup" => dis'[c] = dis[c]]_vars

\* C24 witness: the second update of a disease with the general equations,
\* in which one cohort has q = 0 and the previous columns of another are
\* those of the first update, not the initial ones, and not the current ones
C24_Witness ==
    /\ \E c \in Tracked : DegenerateUpdate(c)
    /\ \E c \in Tracked :
          /\ solves[c] = 1
          /\ dis[c].S_previous # InitialDisease(c).S
          /\ dis[c].S_previous # dis[c].S
          /\ dis[c].C_intervention_previous # dis[c].C_intervention

\* the remission rate is 0 for every cohort of the batch of the update
NoRemissionInBatch ==
    \A c \in Tracked : DiseaseRates(TheDisease, c).r = 0

\* the columns new are those of the fast path from the columns x, rates rt
FastPath(x, rt, new) ==
    /\ new.S = Mul(x.S, Exp(-rt.i_bau))
    /\ new.C = Mul(x.C, Exp(-rt.f)) + x.S - new.S
    /\ new.S_intervention = Mul(x.S_intervention, Exp(-rt.i_int))
    /\ new.C_intervention =
          Mul(x.C_intervention, Exp(-rt.f))
          + x.S_intervention - new.S_intervention

\* the columns new are those of the general equations
GeneralPath(x, rt, new) ==
    /\ new.S = GeneralUpdate(x.S, x.C, rt.i_bau, rt.r, rt.f).S
    /\ new.C = GeneralUpdate(x.S, x.C, rt.i_bau, rt.r, rt.f).C
    /\ new.S_intervention =
          GeneralUpdate(x.S_intervention, x.C_intervention,
                        rt.i_int, rt.r, rt.f).S
    /\ new.C_intervention =
          GeneralUpdate(x.S_intervention, x.C_intervention,
                        rt.i_int, rt.r, rt.f).C

\* C25: an update of the chronic disease uses the fast path, S * exp(-i)
\* and C * exp(-f) + S - S_new, for every cohort when the remission is 0 for
\* every cohort of the batch and simplified_no_remission_equations is set,
\* and the general equations for every cohort of the batch otherwise.
C25_FastPathForBatchWithoutRemission ==
    [][\A c \in Cohorts :
          (pc = "Disease.on_time_step_prepare" /\ solves'[c] = solves[c] + 1)
          => IF TheDisease.flag /\ NoRemissionInBatch
             THEN FastPath(dis[c], DiseaseRates(TheDisease, c), dis'[c])
             ELSE GeneralPath(dis[c], DiseaseRates(TheDisease, c), dis'[c])
      ]_vars

\* C25 witness: a disease with simplified_no_remission_equations has updated
\* a batch in which one cohort has remission: the cohort without remission
\* has the columns of the general equations, not those of the fast path
C25_Witness ==
    /\ HasDisease
    /\ AfterPrepare
    /\ TheDisease.flag
    /\ \E c \in Tracked : solves[c] = 1 /\ DiseaseRates(TheDisease, c).r # 0
    /\ \E c \in Tracked :
          /\ solves[c] = 1
          /\ DiseaseRates(TheDisease, c).r = 0
          /\ GeneralPath(PriorColumns(c), DiseaseRates(TheDisease, c), dis[c])
          /\ ~FastPath(PriorColumns(c), DiseaseRates(TheDisease, c), dis[c])

\* C27: a Disease named X has the four intervention pipelines
\* 'X_intervention.incidence', 'X_intervention.remission',
\* 'X_intervention.mortality' and 'X_intervention.morbidity', and a modifier
\* on any of them changes the update of the intervention track or its yld
\* contribution: each of them is evaluated for every cohort the disease
\* updates in a step, a modifier acting only when its pipeline is evaluated.
C27_FourInterventionPipelines ==
    (HasDisease /\ AfterDisability) =>
        \A c \in Tracked :
            solves[c] = 1 =>
                \A p \in DocumentedPipelines(TheDisease.name) :
                    evals[p][c] >= 1

\* the error of the arithmetic in one product or quotient, in units of the
\* last decimal
RoundOff == 2

\* C28: in every population step and on each track the population before
\* the step is the population after it plus the deaths of the step, and
\* pr_death is deaths / population_before where that population is not 0.
C28_DeathsAreTheHeadCountRemoved ==
    AfterMortality =>
        \A c \in Tracked :
            /\ Abs(before[c].population
                   - (pop[c].population + pop[c].deaths)) <= RoundOff
            /\ Abs(before[c].bau_population
                   - (pop[c].bau_population + pop[c].bau_deaths)) <= RoundOff
            /\ before[c].population # 0 =>
                  Abs(Div(pop[c].deaths, before[c].population)
                      - pop[c].pr_death) <= RoundOff
            /\ before[c].bau_population # 0 =>
                  Abs(Div(pop[c].bau_deaths, before[c].bau_population)
                      - pop[c].bau_pr_death) <= RoundOff

\* C28 witness: a later step has removed cohort members, more on one track
\* than on the other
C28_Witness ==
    /\ AfterMortality
    /\ step >= 1
    /\ \E c \in Tracked :
          /\ pop[c].deaths > 0
          /\ pop[c].bau_deaths > pop[c].deaths
          /\ before[c].population < PopulationData
          /\ pop[c].population < before[c].population
          /\ before[c].bau_population # before[c].population

\* the columns the last update gives cohort c, whose rates are rt, in the
\* run without an intervention on the incidence: both tracks under the
\* incidence of the lookup table
Unshifted(c, rt) ==
    UpdatedDisease(PriorColumns(c),
                   [rt EXCEPT !.i_bau = Rescale(IncidenceData(AgeYears(c))),
                              !.i_int = Rescale(IncidenceData(AgeYears(c)))],
                   TheDisease.flag /\ NoRemissionInBatch, NoRemissionInBatch)

\* C29: an IncidenceShift named after the chronic Disease X changes the
\* incidence of the intervention track only: every update writes to the BAU
\* columns X_S, X_C, X_S_previous, X_C_previous what it writes without the
\* IncidenceShift, and the intervention columns are the ones that differ.
C29_ShiftOnInterventionTrackOnly ==
    (OnlyTheTwo("Disease", "chd", "IncidenceShift", "chd") /\ AfterPrepare) =>
        \A c \in Tracked :
            solves[c] = 1 =>
                \E u \in {Unshifted(c, DiseaseRates(TheDisease, c))} :
                    /\ dis[c].S = u.S
                    /\ dis[c].C = u.C
                    /\ dis[c].S_intervention # u.S_intervention

\* C30: for an AcuteDisease with no_bau the columns <name>_deaths_bau and
\* <name>_HALY_bau are 0 for every cohort at every point of the run, and its
\* BAU pipelines '<name>.excess_mortality' and '<name>.yld_rate' are never
\* evaluated.
C30_NoBauColumnsStayZero ==
    \A k \in Of("AcuteDisease") :
        components[k].flag =>
            \A c \in Cohorts :
                /\ acute[components[k].name][c].deaths_bau = 0
                /\ acute[components[k].name][c].HALY_bau = 0
                /\ evals[BauExcessMortality(components[k].name)][c] = 0
                /\ evals[BauYldRate(components[k].name)][c] = 0

\* C30 witness: in a later step an AcuteDisease with no_bau has evaluated
\* its intervention pipelines and written its deaths and HALY for a cohort
C30_Witness ==
    /\ AfterDisability
    /\ step >= 1
    /\ \E k \in Of("AcuteDisease") :
          /\ components[k].flag
          /\ \E c \in Tracked :
                /\ acute[components[k].name][c].deaths > 0
                /\ acute[components[k].name][c].HALY < 0
                /\ acute[components[k].name][c].deaths_bau = 0
                /\ evals[IntExcessMortality(components[k].name)][c] = 2
                /\ evals[IntYldRate(components[k].name)][c] = 2

=============================================================================
